---------------------------- MODULE Spec2Model ----------------------------
(***************************************************************************)
(* A model of the SEP converter (sep2html.py) and of the feed builder      *)
(* (sep2rss.py).                                                           *)
(*                                                                         *)
(* A Python str that the code inspects is a sequence of one-character      *)
(* strings.  The text written to the output file is a sequence of atoms:   *)
(* the characters of the content, and the markup literals and character    *)
(* references the code writes ("<pre>", "&lt;", ...), each as one atom.    *)
(* The file's text is the concatenation of the atoms.                      *)
(***************************************************************************)
EXTENDS Integers, Sequences, FiniteSets, TLC

VARIABLES
    args, argi, html, stderr, exc, pc, caller,
    inpath, input_lines, pos, header, sep, title, hi, need_pre, out,
    line, rendered, document,
    files, epoch, seps, seps_with_dt, items, rss_n

vars == << args, argi, html, stderr, exc, pc, caller,
           inpath, input_lines, pos, header, sep, title, hi, need_pre, out,
           line, rendered, document,
           files, epoch, seps, seps_with_dt, items, rss_n >>

\* the feed builder (sep2rss.py): the directory it runs in, the local time of
\* the Unix epoch there, and its module-level names (rss_n is its n:
\* << >> while unbound, << value >> once assigned)
feedVars == << files, epoch, seps, seps_with_dt, items, rss_n >>

mainVars == << args, argi, html, caller >>
fileVars == << inpath, input_lines, pos, header, sep, title, hi, need_pre >>
subVars  == << line, rendered >>

-----------------------------------------------------------------------------
(* Bounds of the model. *)

\* chunks concatenated into one body line handed to fixpat.sub
MaxChunks == 3
\* header lines of a generated document
MaxHeader == 2
\* body lines of a generated document
MaxBody == 3
\* positional arguments given to main
MaxArgs == 2
\* numbered documents in the directory of the feed builder
MaxFeedDocs == 11
\* header fields of a generated document tree
MaxFields == 3

-----------------------------------------------------------------------------
(* Character classes of the regular expressions and of str.strip. *)

DigitSeq == <<"0","1","2","3","4","5","6","7","8","9">>
UpperSeq == <<"A","B","C","D","E","F","G","H","I","J","K","L","M","N","O","P","Q","R","S","T","U","V","W","X","Y","Z">>
LowerSeq == <<"a","b","c","d","e","f","g","h","i","j","k","l","m","n","o","p","q","r","s","t","u","v","w","x","y","z">>

Range(s) == { s[i] : i \in 1..Len(s) }

\* \d
Digit == Range(DigitSeq)
\* \s and the characters str.strip() removes (\v has no TLA+ escape and is left out)
Space == { " ", "\t", "\n", "\r", "\f" }
\* [-_a-zA-Z0-9/.+~:?#$=&,]
UrlChar == Range(UpperSeq) \cup Range(LowerSeq) \cup Digit
              \cup Range(<<"-","_","/",".","+","~",":","?","#","$","=","&",",">>)
\* the characters of "();:,.?'\"<>"
TrailPunct == Range(<<"(",")",";",":",",",".","?","'","\"","<",">">>)

-----------------------------------------------------------------------------
(* str methods. *)

StartsAt(s, i, p) == i >= 1 /\ i + Len(p) - 1 <= Len(s) /\ SubSeq(s, i, i + Len(p) - 1) = p
startswith(s, p) == StartsAt(s, 1, p)
endswith(s, p) == StartsAt(s, Len(s) - Len(p) + 1, p)

\* last index of the longest run of characters of C that starts at i (i-1: no run)
RunEnd(s, i, C) ==
    CHOOSE j \in (i - 1)..Len(s) :
        /\ \A k \in i..j : s[k] \in C
        /\ (j = Len(s) \/ s[j + 1] \notin C)

\* first index of the last run of characters of C that ends at j (j+1: no run)
RunStart(s, j, C) ==
    CHOOSE i \in 1..(j + 1) :
        /\ \A k \in i..j : s[k] \in C
        /\ (i = 1 \/ s[i - 1] \notin C)

lstrip(s) == SubSeq(s, RunEnd(s, 1, Space) + 1, Len(s))
rstrip(s) == SubSeq(s, 1, RunStart(s, Len(s), Space) - 1)
strip(s) == rstrip(lstrip(s))

lowerchar(c) ==
    IF \E i \in 1..26 : UpperSeq[i] = c
    THEN LowerSeq[CHOOSE i \in 1..26 : UpperSeq[i] = c]
    ELSE c
lower(s) == [i \in 1..Len(s) |-> lowerchar(s[i])]

\* s.find(c) for a character c; 0 when absent
find(s, c) ==
    IF \E i \in 1..Len(s) : s[i] = c
    THEN CHOOSE i \in 1..Len(s) : s[i] = c /\ \A k \in 1..(i - 1) : s[k] # c
    ELSE 0
rfind(s, c) ==
    IF \E i \in 1..Len(s) : s[i] = c
    THEN CHOOSE i \in 1..Len(s) : s[i] = c /\ \A k \in (i + 1)..Len(s) : s[k] # c
    ELSE 0

RECURSIVE Join(_)
\* EMPTYSTRING.join(parts)
Join(parts) == IF parts = << >> THEN << >> ELSE Head(parts) \o Join(Tail(parts))

\* int(s) of a string of decimal digits
RECURSIVE DigitsValue(_)
DigitsValue(ds) ==
    IF ds = << >> THEN 0
    ELSE 10 * DigitsValue(SubSeq(ds, 1, Len(ds) - 1))
           + (CHOOSE k \in 0..9 : DigitSeq[k + 1] = ds[Len(ds)])

\* whether int(s) succeeds: surrounding whitespace, an optional sign, decimal digits
IsInt(s) ==
    LET t == strip(s)
        d == IF t # << >> /\ t[1] \in {"+", "-"} THEN Tail(t) ELSE t
    IN  d # << >> /\ \A i \in 1..Len(d) : d[i] \in Digit

\* int(s), where IsInt(s)
int(s) ==
    LET t == strip(s)
    IN  IF t[1] = "-" THEN 0 - DigitsValue(Tail(t))
        ELSE IF t[1] = "+" THEN DigitsValue(Tail(t))
        ELSE DigitsValue(t)

RECURSIVE NatDigits(_)
NatDigits(n) ==
    IF n < 10 THEN << DigitSeq[n + 1] >>
    ELSE NatDigits(n \div 10) \o << DigitSeq[(n % 10) + 1] >>

RECURSIVE ZeroPad(_, _)
ZeroPad(ds, width) == IF Len(ds) >= width THEN ds ELSE ZeroPad(<< "0" >> \o ds, width)

\* "%d" % n
Fmt_d(n) == IF n < 0 THEN << "-" >> \o NatDigits(0 - n) ELSE NatDigits(n)
\* "%04d" % n
Fmt_04d(n) == IF n < 0 THEN << "-" >> \o ZeroPad(NatDigits(0 - n), 3) ELSE ZeroPad(NatDigits(n), 4)

\* html.escape(s): one atom per character
escapechar(c) ==
    CASE c = "&" -> "&amp;"
      [] c = "<" -> "&lt;"
      [] c = ">" -> "&gt;"
      [] c = "\"" -> "&quot;"
      [] c = "'" -> "&#x27;"
      [] OTHER -> c
escape(s) == [i \in 1..Len(s) |-> escapechar(s[i])]

\* os.path.splitext(p)[0]: cut at the last dot of the last path component,
\* unless that component has only dots before it
splitext_root(p) ==
    LET slash == rfind(p, "/")
        dot == rfind(p, ".")
    IN  IF dot > slash + 1 /\ \E k \in (slash + 1)..(dot - 1) : p[k] # "."
        THEN SubSeq(p, 1, dot - 1)
        ELSE p

\* os.path.basename(p)
basename_of(p) == SubSeq(p, rfind(p, "/") + 1, Len(p))

-----------------------------------------------------------------------------
(* fixpat: one match attempt at position i, the alternatives in order. *)

\* a page name without the zero padding
SEPURL_unpadded(n) == <<"s","e","p","-">> \o Fmt_d(n) \o <<".","h","t","m","l">>

SEPURL(n) == <<"s","e","p","-">> \o Fmt_04d(n) \o <<".","h","t","m","l">>
RFCURL(n) == <<"h","t","t","p",":","/","/","w","w","w",".","f","a","q","s",".","o","r","g","/","r","f","c","s","/","r","f","c">> \o Fmt_d(n) \o <<".","h","t","m","l">>

NoMatch == [kind |-> "none", end |-> 0, sepnum |-> << >>, rfcnum |-> << >>]

\* ((https?|ftp):[-_a-zA-Z0-9/.+~:?#$=&,]+)
UrlAlt(s, i) ==
    LET colon == IF StartsAt(s, i, <<"h","t","t","p","s",":">>) THEN i + 5
                 ELSE IF StartsAt(s, i, <<"h","t","t","p",":">>) THEN i + 4
                 ELSE IF StartsAt(s, i, <<"f","t","p",":">>) THEN i + 3
                 ELSE 0
        e == RunEnd(s, colon + 1, UrlChar)
    IN  IF colon > 0 /\ e > colon
        THEN [kind |-> "url", end |-> e, sepnum |-> << >>, rfcnum |-> << >>]
        ELSE NoMatch

\* (sep-\d+(.txt|.rst)?)   the dot is unescaped: any character but a newline
SepFileAlt(s, i) ==
    LET d == RunEnd(s, i + 4, Digit)
        ext == /\ d + 4 <= Len(s)
               /\ s[d + 1] # "\n"
               /\ SubSeq(s, d + 2, d + 4) \in { <<"t","x","t">>, <<"r","s","t">> }
    IN  IF StartsAt(s, i, <<"s","e","p","-">>) /\ d >= i + 4
        THEN [kind |-> "sepfile", end |-> IF ext THEN d + 4 ELSE d,
              sepnum |-> << >>, rfcnum |-> << >>]
        ELSE NoMatch

\* (RFC[- ]?(?P<rfcnum>\d+))
RfcAlt(s, i) ==
    LET k == IF i + 3 <= Len(s) /\ s[i + 3] \in {"-", " "} THEN i + 4 ELSE i + 3
        d == RunEnd(s, k, Digit)
    IN  IF StartsAt(s, i, <<"R","F","C">>) /\ d >= k
        THEN [kind |-> "rfc", end |-> d, sepnum |-> << >>, rfcnum |-> SubSeq(s, k, d)]
        ELSE NoMatch

\* (SEP\s+(?P<sepnum>\d+))
SepRefAlt(s, i) ==
    LET w == RunEnd(s, i + 3, Space)
        d == RunEnd(s, w + 1, Digit)
    IN  IF StartsAt(s, i, <<"S","E","P">>) /\ w >= i + 3 /\ d >= w + 1
        THEN [kind |-> "sepref", end |-> d, sepnum |-> SubSeq(s, w + 1, d), rfcnum |-> << >>]
        ELSE NoMatch

\* .
AnyAlt(s, i) ==
    IF s[i] # "\n"
    THEN [kind |-> "any", end |-> i, sepnum |-> << >>, rfcnum |-> << >>]
    ELSE NoMatch

fixpat_match(s, i) ==
    IF UrlAlt(s, i).kind # "none" THEN UrlAlt(s, i)
    ELSE IF SepFileAlt(s, i).kind # "none" THEN SepFileAlt(s, i)
    ELSE IF RfcAlt(s, i).kind # "none" THEN RfcAlt(s, i)
    ELSE IF SepRefAlt(s, i).kind # "none" THEN SepRefAlt(s, i)
    ELSE AnyAlt(s, i)

-----------------------------------------------------------------------------
(* fixanchor *)

\* strips one trailing punctuation character only
StripTrailing_once(ltext) ==
    IF ltext # << >> /\ ltext[Len(ltext)] \in TrailPunct
    THEN SubSeq(ltext, 1, Len(ltext) - 1)
    ELSE ltext

RECURSIVE StripTrailing(_)
\* while ltext: c = ltext.pop(); if c not in "();:,.?'\"<>": ltext.append(c); break
StripTrailing(ltext) ==
    IF ltext = << >> THEN << >>
    ELSE IF ltext[Len(ltext)] \notin TrailPunct THEN ltext
    ELSE StripTrailing(SubSeq(ltext, 1, Len(ltext) - 1))

\* '<a href="%s">%s</a>' % (escape(link), escape(text))
Anchor(link, text) ==
    << "<a href=\"" >> \o escape(link) \o << "\">" >> \o escape(text) \o << "</a>" >>

\* the link fixanchor chooses for the matched text; << >> is None
AnchorLink(current, text, m) ==
    IF startswith(text, <<"h","t","t","p",":">>) \/ startswith(text, <<"h","t","t","p","s",":">>) \/ startswith(text, <<"f","t","p",":">>)
    THEN StripTrailing(text)
    ELSE IF startswith(text, <<"s","e","p","-">>) /\ text # current
    THEN splitext_root(text) \o <<".","h","t","m","l">>
    ELSE IF startswith(text, <<"S","E","P">>)
    THEN SEPURL(DigitsValue(m.sepnum))
    ELSE IF startswith(text, <<"R","F","C">>)
    THEN RFCURL(DigitsValue(m.rfcnum))
    ELSE << >>

fixanchor(current, text, m) ==
    LET link == AnchorLink(current, text, m)
    IN  IF link # << >> THEN Anchor(link, text) ELSE escape(text)

RECURSIVE fixpat_sub_from(_, _, _)
\* fixpat.sub(lambda x, c=current: fixanchor(c, x), s) from position i: the
\* leftmost match is replaced, a character no alternative matches is copied
fixpat_sub_from(current, s, i) ==
    IF i > Len(s) THEN << >>
    ELSE LET m == fixpat_match(s, i)
         IN  IF m.kind = "none"
             THEN << s[i] >> \o fixpat_sub_from(current, s, i + 1)
             ELSE fixanchor(current, SubSeq(s, i, m.end), m)
                    \o fixpat_sub_from(current, s, m.end + 1)

\* the line without its line breaks
fixpat_sub_chomped(current, s) ==
    SelectSeq(fixpat_sub_from(current, s, 1), LAMBDA a : a # "\n")

fixpat_sub(current, s) == fixpat_sub_from(current, s, 1)


-----------------------------------------------------------------------------
(* Library functions fixfile calls. *)

RECURSIVE WordsFrom(_, _)
\* s.split(): the maximal runs of characters that are no white space
WordsFrom(s, i) ==
    LET b == RunEnd(s, i, Space) + 1
        e == RunEnd(s, b, Range(s) \ Space)
    IN  IF i > Len(s) \/ b > Len(s) THEN << >>
        ELSE << SubSeq(s, b, e) >> \o WordsFrom(s, e + 1)

split_words(s) == WordsFrom(s, 1)

\* the end of the separator that starts at s[i], 0 when none starts there:
\* ",\s*" (mode "comma") or ",?\s+" (mode "list")
SeparatorEnd(mode, s, i) ==
    IF mode = "comma"
    THEN IF s[i] = "," THEN RunEnd(s, i + 1, Space) ELSE 0
    ELSE IF s[i] = "," /\ i < Len(s) /\ s[i + 1] \in Space THEN RunEnd(s, i + 1, Space)
    ELSE IF s[i] \in Space THEN RunEnd(s, i, Space)
    ELSE 0

RECURSIVE ReSplitFrom(_, _, _, _)
\* re.split(pattern, s): i scans, b is where the current piece began
ReSplitFrom(mode, s, b, i) ==
    IF i > Len(s) THEN << SubSeq(s, b, Len(s)) >>
    ELSE LET e == SeparatorEnd(mode, s, i)
         IN  IF e = 0 THEN ReSplitFrom(mode, s, b, i + 1)
             ELSE << SubSeq(s, b, i - 1) >> \o ReSplitFrom(mode, s, e + 1, e + 1)

\* the pieces without the last, when there are several
re_split_short(mode, s) ==
    IF Len(ReSplitFrom(mode, s, 1, 1)) > 1
    THEN SubSeq(ReSplitFrom(mode, s, 1, 1), 1, Len(ReSplitFrom(mode, s, 1, 1)) - 1)
    ELSE ReSplitFrom(mode, s, 1, 1)

re_split(mode, s) == ReSplitFrom(mode, s, 1, 1)

\* index of the first occurrence of p in s, 0 when there is none
FindSub(s, p) ==
    IF \E k \in 1..(Len(s) - Len(p) + 1) : StartsAt(s, k, p)
    THEN CHOOSE k \in 1..(Len(s) - Len(p) + 1) :
             StartsAt(s, k, p) /\ \A j \in 1..(k - 1) : ~StartsAt(s, j, p)
    ELSE 0

\* re.sub(p, repl, s, 1) for a pattern p without special characters
sub_first(p, repl, s) ==
    LET k == FindSub(s, p)
    IN  IF k = 0 \/ p = << >> THEN s
        ELSE SubSeq(s, 1, k - 1) \o repl \o SubSeq(s, k + Len(p), Len(s))

\* s without its white space
Unspaced(s) == Join([i \in 1..Len(s) |-> IF s[i] \in Space THEN << >> ELSE << s[i] >>])

RECURSIVE JoinWords(_)
\* SPACE.join(words)
JoinWords(words) ==
    IF words = << >> THEN << >>
    ELSE IF Len(words) = 1 THEN words[1]
    ELSE words[1] \o << " " >> \o JoinWords(Tail(words))

\* email.utils.parseaddr(part) for the forms "addr" and "Real Name <addr>" (white
\* space in the address is dropped, as the library does in a domain); an address
\* with an empty local part or domain fails to parse and gives ('', '')
parseaddr(part) ==
    LET lt == find(part, "<")
        rest == SubSeq(part, lt + 1, Len(part))
        gt == find(rest, ">")
        addr == IF lt = 0 THEN Unspaced(part)
                ELSE Unspaced(SubSeq(rest, 1, IF gt = 0 THEN Len(rest) ELSE gt - 1))
        name == IF lt = 0 THEN << >> ELSE JoinWords(split_words(SubSeq(part, 1, lt - 1)))
        at == find(addr, "@")
    IN  IF at > 0 /\ (at = 1 \/ at = Len(addr))
        THEN [realname |-> << >>, addr |-> << >>]
        ELSE [realname |-> name, addr |-> addr]

-----------------------------------------------------------------------------
(* fixemail and linkemail *)

NON_MASKED_EMAILS == { <<"s","e","p","s","@","p","y","t","h","o","n",".","o","r","g">>, <<"p","y","t","h","o","n","-","l","i","s","t","@","p","y","t","h","o","n",".","o","r","g">>,
                       <<"p","y","t","h","o","n","-","d","e","v","@","p","y","t","h","o","n",".","o","r","g">> }

\* address.split("@", 1)
LocalPart(address) == SubSeq(address, 1, find(address, "@") - 1)
DomainPart(address) == SubSeq(address, find(address, "@") + 1, Len(address))

\* "%s&#32;&#97;t&#32;%s" % (parts[0], parts[1])
Masked(address) == LocalPart(address) \o << "&#32;&#97;t&#32;" >> \o DomainPart(address)

linkemail(address, sepno) ==
    << "<a href=\"mailto:" >> \o LocalPart(address) \o << "&#64;" >> \o DomainPart(address)
        \o << "?subject=SEP%20" >> \o sepno \o << "\">" >>
        \o Masked(address) \o << "</a>" >>

\* the allow-list compared with the address as written
fixemail_cased(address, sepno) ==
    IF address \in NON_MASKED_EMAILS
    THEN linkemail(address, sepno)
    ELSE Masked(address)

fixemail(address, sepno) ==
    IF lower(address) \in NON_MASKED_EMAILS
    THEN linkemail(address, sepno)
    ELSE Masked(address)

-----------------------------------------------------------------------------
(* fixfile: the header table. A row is [err, v]: the exception raised, or *)
(* "none" and the cell's text.                                            *)

LOCALVARS == <<"L","o","c","a","l"," ","V","a","r","i","a","b","l","e","s",":">>
INDEXNAME == <<"s","e","p","-","0","0","0","0",".","t","x","t">>
\* "https://hg.python.org/peps/file/tip/pep-%04d.txt" % n
SEPCVSURL(n) == <<"h","t","t","p","s",":","/","/","h","g",".","p","y","t","h","o","n",".","o","r","g","/","p","e","p","s","/","f","i","l","e","/","t","i","p","/","p","e","p","-">> \o Fmt_04d(n) \o <<".","t","x","t">>
\* time.strftime("%d-%b-%Y", time.localtime(os.stat(inpath)[8])): the file's date
FileDate == <<"0","1","-","J","a","n","-","2","0","2","0">>

Println(text) == text \o << "\n" >>

\* one entry of an Author, Bdfl-Delegate or Discussions-To value
MailPart(k, part, sepno) ==
    LET pa == parseaddr(part)
    IN  IF find(part, "@") > 0
        THEN IF find(pa.addr, "@") = 0
             THEN [err |-> "IndexError", v |-> << >>]
             ELSE [err |-> "none",
                   v |-> pa.realname \o << " ", "&lt;" >>
                           \o (IF lower(k) = <<"d","i","s","c","u","s","s","i","o","n","s","-","t","o">>
                               THEN linkemail(pa.addr, sepno)
                               ELSE fixemail(pa.addr, sepno))
                           \o << "&gt;" >>]
        ELSE IF startswith(part, <<"h","t","t","p",":">>)
        THEN [err |-> "none", v |-> << "<a href=\"" >> \o part \o << "\">" >> \o part \o << "</a>" >>]
        ELSE [err |-> "none", v |-> part]

RECURSIVE MailParts(_, _, _)
\* COMMASPACE.join(mailtos)
MailParts(k, parts, sepno) ==
    LET first == MailPart(k, Head(parts), sepno)
        rest == MailParts(k, Tail(parts), sepno)
    IN  IF first.err # "none" THEN first
        ELSE IF Len(parts) = 1 THEN first
        ELSE IF rest.err # "none" THEN rest
        ELSE [err |-> "none", v |-> first.v \o <<","," ">> \o rest.v]

RECURSIVE OtherSeps_skipping(_)
\* a token that is no integer is passed over
OtherSeps_skipping(tokens) ==
    IF tokens = << >> THEN [err |-> "none", v |-> << >>]
    ELSE IF ~IsInt(Head(tokens)) THEN OtherSeps_skipping(Tail(tokens))
    ELSE LET rest == OtherSeps_skipping(Tail(tokens))
             n == int(Head(tokens))
         IN  [err |-> "none",
              v |-> << "<a href=\"" >> \o <<"s","e","p","-">> \o Fmt_04d(n) \o <<".","h","t","m","l">> \o << "\">" >>
                      \o Fmt_d(n) \o << "</a>", " " >> \o rest.v]

RECURSIVE OtherSeps(_)
\* otherseps += '<a href="sep-%04d.html">%i</a> ' % (othersep, othersep)
OtherSeps(tokens) ==
    IF tokens = << >> THEN [err |-> "none", v |-> << >>]
    ELSE IF ~IsInt(Head(tokens)) THEN [err |-> "ValueError", v |-> << >>]
    ELSE LET rest == OtherSeps(Tail(tokens))
             n == int(Head(tokens))
         IN  IF rest.err # "none" THEN rest
             ELSE [err |-> "none",
                   v |-> << "<a href=\"" >> \o <<"s","e","p","-">> \o Fmt_04d(n) \o <<".","h","t","m","l">> \o << "\">" >>
                           \o Fmt_d(n) \o << "</a>", " " >> \o rest.v]

LastModified(v, path, sepno) ==
    LET d0 == IF v # << >> THEN v ELSE FileDate
        date == IF startswith(d0, <<"$","D","a","t","e",":"," ">>) /\ endswith(d0, <<" ","$">>)
                THEN SubSeq(d0, 7, Len(d0) - 2)
                ELSE d0
    IN  IF basename_of(path) = INDEXNAME THEN date
        ELSE IF IsInt(sepno)
        THEN << "<a href=\"" >> \o SEPCVSURL(int(sepno)) \o << "\">" >> \o escape(date)
               \o << "</a>", " " >>
        ELSE date

HeaderRow(k, v, path, sepno) ==
    LET key == lower(k)
    IN  IF key \in { <<"a","u","t","h","o","r">>, <<"b","d","f","l","-","d","e","l","e","g","a","t","e">>, <<"d","i","s","c","u","s","s","i","o","n","s","-","t","o">> }
        THEN MailParts(k, re_split("comma", v), sepno)
        ELSE IF key \in { <<"r","e","p","l","a","c","e","s">>, <<"s","u","p","e","r","s","e","d","e","d","-","b","y">>, <<"r","e","q","u","i","r","e","s">> }
        THEN OtherSeps(re_split("list", v))
        ELSE IF key = <<"l","a","s","t","-","m","o","d","i","f","i","e","d">>
        THEN [err |-> "none", v |-> LastModified(v, path, sepno)]
        ELSE IF key = <<"c","o","n","t","e","n","t","-","t","y","p","e">>
        THEN [err |-> "none",
              v |-> << "<a href=\"" >> \o SEPURL(9) \o << "\">" >>
                      \o escape(IF v # << >> THEN v ELSE <<"t","e","x","t","/","p","l","a","i","n">>) \o << "</a>", " " >>]
        ELSE IF key = <<"v","e","r","s","i","o","n">>
        THEN [err |-> "none",
              v |-> IF startswith(v, <<"$","R","e","v","i","s","i","o","n",":"," ">>) /\ endswith(v, <<" ","$">>)
                    THEN escape(SubSeq(v, 12, Len(v) - 2))
                    ELSE v]
        ELSE [err |-> "none", v |-> escape(v)]

-----------------------------------------------------------------------------
(* fixfile: the steps. *)

\* the return from fixfile to make_html and main: outfile.close(), the next argument
Return ==
    IF caller = "main"
    THEN /\ pc' = "main"
         /\ html' = Append(html, splitext_root(inpath) \o <<".","h","t","m","l">>)
         /\ argi' = argi + 1
    ELSE /\ pc' = "done"
         /\ UNCHANGED << html, argi >>

\* lines 168-175
Begin ==
    /\ pc = "fixfile"
    /\ out' = << "<!DOCTYPE html ...>", "\n", "<html>", "\n", "<!-- COMMENT -->", "\n",
                 "<head>", "\n" >>
    /\ header' = << >> /\ sep' = << >> /\ title' = << >>
    /\ pos' = 1
    /\ pc' = "head"
    /\ UNCHANGED << feedVars, document, args, argi, html, caller, stderr, exc, inpath, input_lines, hi,
                    need_pre, line, rendered >>

\* the header after one more header line: a new field, or a continuation
NextHeader(l) ==
    IF strip(<< l[1] >>) # << >>
    THEN Append(header, << SubSeq(l, 1, find(l, ":") - 1),
                           strip(SubSeq(l, find(l, ":") + 1, Len(l))) >>)
    ELSE [header EXCEPT ![Len(header)] = << header[Len(header)][1], header[Len(header)][2] \o l >>]

\* one pass of the loop of lines 179-196
HeadLine ==
    /\ pc = "head"
    /\ IF pos > Len(input_lines)
       THEN /\ pc' = "nav"
            /\ UNCHANGED << pos, header, title, sep, exc >>
       ELSE LET l == input_lines[pos]
            IN  /\ pos' = pos + 1
                /\ IF strip(l) = << >> \/ (strip(<< l[1] >>) # << >> /\ find(l, ":") = 0)
                   THEN /\ pc' = "nav"
                        /\ UNCHANGED << header, title, sep, exc >>
                   ELSE IF strip(<< l[1] >>) = << >> /\ header = << >>
                   THEN /\ pc' = "raised" /\ exc' = "IndexError"
                        /\ UNCHANGED << header, title, sep >>
                   ELSE LET h == NextHeader(l)
                            key == h[Len(h)][1]
                            value == h[Len(h)][2]
                        IN  /\ header' = h
                            /\ title' = IF lower(key) = <<"t","i","t","l","e">> THEN value ELSE title
                            /\ sep' = IF lower(key) = <<"s","e","p">> THEN value ELSE sep
                            /\ pc' = "head"
                            /\ exc' = exc
    /\ UNCHANGED << feedVars, document, args, argi, html, caller, stderr, inpath, input_lines, hi, need_pre,
                    out, line, rendered >>

\* the link written whatever the value is, and no warning
SourceLink_unchecked(sepno) ==
    [out |-> IF sepno # << >>
             THEN Println(<< "[<b><a href=\"" >> \o <<"s","e","p","-">> \o sepno \o <<".","t","x","t">>
                            \o << "\">SEP Source</a></b>]" >>)
             ELSE << >>,
     err |-> << >>]

\* lines 220-227: what is written to outfile and to sys.stderr for the source link
SourceLink(sepno) ==
    IF sepno = << >> THEN [out |-> << >>, err |-> << >>]
    ELSE IF IsInt(sepno)
    THEN [out |-> Println(<< "[<b><a href=\"" >> \o <<"s","e","p","-">> \o Fmt_04d(int(sepno)) \o <<".","t","x","t">>
                            \o << "\">SEP Source</a></b>]" >>),
          err |-> << >>]
    ELSE [out |-> << >>,
          err |-> << << "ValueError (invalid SEP number): " >> \o sepno >>]

\* lines 197-229: the title, the navigation bar and the source link
Nav ==
    /\ pc = "nav"
    /\ LET t == IF sep # << >> THEN <<"S","E","P"," ">> \o sep \o <<" ","-","-"," ">> \o title ELSE title
       IN  /\ title' = t
           /\ out' = out
                \o (IF t # << >> THEN Println(<< "  <title>" >> \o escape(t) \o << "</title>" >>)
                    ELSE << >>)
                \o Println(<< "<link stylesheet/><body><table navigation>[Python Home]" >>)
                \o (IF basename_of(inpath) # INDEXNAME
                    THEN Println(<< "[<b><a href=\".\">SEP Index</a></b>]" >>)
                    ELSE << >>)
                \o SourceLink(sep).out
                \o Println(<< "</td></tr></table>" >>)
                \o Println(<< "<div class=\"header\">\n<table border=\"0\">" >>)
    /\ stderr' = stderr \o SourceLink(sep).err
    /\ hi' = 1
    /\ pc' = "table"
    /\ UNCHANGED << feedVars, document, args, argi, html, caller, exc, inpath, input_lines, pos, header, sep,
                    need_pre, line, rendered >>

\* one pass of the loop of lines 230-273, and lines 274-278 after the last
TableRow ==
    /\ pc = "table"
    /\ IF hi > Len(header)
       THEN /\ out' = out \o Println(<< "</table>" >>) \o Println(<< "</div>" >>)
                          \o Println(<< "<hr />" >>) \o Println(<< "<div class=\"content\">" >>)
            /\ need_pre' = 1
            /\ pc' = "body"
            /\ UNCHANGED << hi, exc >>
       ELSE LET row == HeaderRow(header[hi][1], header[hi][2], inpath, sep)
            IN  IF row.err # "none"
                THEN /\ pc' = "raised" /\ exc' = row.err
                     /\ UNCHANGED << out, hi, need_pre >>
                ELSE /\ out' = out \o Println(<< "  <tr><th>" >> \o escape(header[hi][1])
                                             \o << ":&nbsp;</th><td>" >> \o row.v
                                             \o << "</td></tr>" >>)
                     /\ hi' = hi + 1
                     /\ pc' = "table"
                     /\ UNCHANGED << need_pre, exc >>
    /\ UNCHANGED << feedVars, document, args, argi, html, caller, stderr, inpath, input_lines, pos, header,
                    sep, title, line, rendered >>

\* "<pre>\n" before every line
OpenPre_always == Println(<< "<pre>" >>)

\* "<pre>\n" when a block has to be opened
OpenPre == IF need_pre = 1 THEN Println(<< "<pre>" >>) ELSE << >>

\* the special treatment of SEP 0 (lines 293-316): "summary", "email" or "none"
IndexLineKind(l) ==
    LET parts == split_words(l)
    IN  IF basename_of(inpath) # INDEXNAME THEN "none"
        ELSE IF Len(parts) > 1 /\ parts[2][1] \in Digit THEN "summary"
        ELSE IF parts # << >> /\ find(parts[Len(parts)], "@") > 0 THEN "email"
        ELSE "none"

\* what the loop of lines 279-321 writes for a line that is no heading
BodyText(l) ==
    LET parts == split_words(l)
        kind == IndexLineKind(l)
    IN  IF kind = "summary"
        THEN sub_first(parts[2],
                       << "<a href=\"" >> \o SEPURL(int(parts[2])) \o << "\">" >> \o parts[2]
                          \o << "</a>" >>,
                       l)
        ELSE IF kind = "email"
        THEN sub_first(parts[Len(parts)], fixemail(parts[Len(parts)], sep), l)
        ELSE fixpat_sub(inpath, l)

\* one pass of the loop of lines 279-321
BodyLine ==
    /\ pc = "body"
    /\ IF pos > Len(input_lines)
       THEN /\ pc' = "tail"
            /\ UNCHANGED << pos, out, need_pre, exc >>
       ELSE LET l == input_lines[pos]
            IN  /\ pos' = pos + 1
                /\ IF l[1] = "\f"
                   THEN /\ pc' = "body"
                        /\ UNCHANGED << out, need_pre, exc >>
                   ELSE IF strip(l) = LOCALVARS
                   THEN /\ pc' = "tail"
                        /\ UNCHANGED << out, need_pre, exc >>
                   ELSE IF strip(<< l[1] >>) # << >>
                   THEN /\ out' = out
                             \o (IF need_pre = 0 THEN Println(<< "</pre>" >>) ELSE << >>)
                             \o Println(<< "<h3>" >> \o strip(l) \o << "</h3>" >>)
                        /\ need_pre' = 1
                        /\ pc' = "body"
                        /\ exc' = exc
                   ELSE IF strip(l) = << >> /\ need_pre = 1
                   THEN /\ pc' = "body"
                        /\ UNCHANGED << out, need_pre, exc >>
                   ELSE IF IndexLineKind(l) = "summary" /\ ~IsInt(split_words(l)[2])
                   THEN /\ pc' = "raised" /\ exc' = "ValueError"
                        /\ UNCHANGED << out, need_pre >>
                   ELSE /\ out' = out \o OpenPre \o BodyText(l)
                        /\ need_pre' = 0
                        /\ pc' = "body"
                        /\ exc' = exc
    /\ UNCHANGED << feedVars, document, args, argi, html, caller, stderr, inpath, input_lines, header,
                    sep, title, hi, line, rendered >>

\* lines 322-326, and the return to the caller
Finish ==
    /\ pc = "tail"
    /\ out' = out \o (IF need_pre = 0 THEN Println(<< "</pre>" >>) ELSE << >>)
                  \o Println(<< "</div>" >>) \o Println(<< "</body>" >>) \o Println(<< "</html>" >>)
    /\ Return
    /\ UNCHANGED << feedVars, document, args, caller, stderr, exc, inpath, input_lines, pos, header, sep,
                    title, hi, need_pre, line, rendered >>

NextFixfile == Begin \/ HeadLine \/ Nav \/ TableRow \/ BodyLine \/ Finish

-----------------------------------------------------------------------------
(* The reStructuredText path: fix_rst_sep and the transform SEPHeaders.    *)
(* A document tree is a sequence of nodes [kind, classes, fields]; a field *)
(* is [name, body], its body a sequence of elements [kind, text].          *)

Paragraph(text) == [kind |-> "paragraph", text |-> text]
Field(name, body) == [name |-> name, body |-> body]
Node(kind, classes, fields) == [kind |-> kind, classes |-> classes, fields |-> fields]

\* Node.astext() of a field body
astext(body) == Join([i \in 1..Len(body) |-> body[i].text])

\* the result of SEPHeaders.apply: the exception raised ("none": it returned)
\* and what the reporter wrote to the warning stream
Raised(e) == [err |-> e, warning |-> << >>]

\* lines 395-455 for one field: the exception it raises, "none" otherwise
FieldError(field) ==
    LET name == lower(field.name)
    IN  IF Len(field.body) > 1 THEN "DataError"
        ELSE IF Len(field.body) = 1 /\ field.body[1].kind # "paragraph" THEN "DataError"
        ELSE IF Len(field.body) = 0 THEN "none"
        ELSE IF name \in { <<"r","e","p","l","a","c","e","s">>, <<"s","u","p","e","r","s","e","d","e","d","-","b","y">>, <<"r","e","q","u","i","r","e","s">> }
                  /\ \E k \in 1..Len(re_split("list", astext(field.body))) :
                         ~IsInt(re_split("list", astext(field.body))[k])
        THEN "ValueError"
        ELSE "none"

\* the first field named "sep" (lines 362-385), 0 when there is none
SepField(hdr) ==
    LET ks == { k \in 1..Len(hdr.fields) : lower(hdr.fields[k].name) = <<"s","e","p">> }
    IN  IF ks = { } THEN 0 ELSE CHOOSE k \in ks : \A j \in ks : k <= j

\* a transform that asks for the number only
SEPHeaders_apply_untitled(doc) ==
    IF Len(doc) = 0 \/ doc[1].kind # "field_list" \/ "rfc2822" \notin doc[1].classes
    THEN Raised("DataError")
    ELSE IF SepField(doc[1]) = 0
    THEN Raised("DataError")
    ELSE Raised("none")

\* SEPHeaders.apply under the settings of fix_rst_sep (halt_level 2: the
\* reporter raises SystemMessage for a warning after writing it)
SEPHeaders_apply(doc) ==
    IF Len(doc) = 0 THEN Raised("DataError")
    ELSE LET hdr == doc[1]
             value == astext(hdr.fields[SepField(hdr)].body)
             bad == { k \in 1..Len(hdr.fields) : FieldError(hdr.fields[k]) # "none" }
         IN  IF hdr.kind # "field_list" \/ "rfc2822" \notin hdr.classes
             THEN Raised("DataError")
             ELSE IF SepField(hdr) = 0
             THEN Raised("DataError")
             ELSE IF ~IsInt(value)
             THEN [err |-> "SystemMessage",
                   warning |-> << "\"SEP\" header must contain an integer; invalid value: " >>
                                 \o value]
             ELSE IF Len(hdr.fields) < 2 \/ lower(hdr.fields[2].name) # <<"t","i","t","l","e">>
             THEN Raised("DataError")
             ELSE IF bad # { }
             THEN Raised(FieldError(hdr.fields[CHOOSE k \in bad : \A j \in bad : k <= j]))
             ELSE Raised("none")

\* whether a line starts an RFC-2822 field: [!-9;-~]+:( +|$)
IsFieldLine(l) ==
    LET c == find(l, ":")
    IN  /\ c > 1
        /\ \A k \in 1..(c - 1) : l[k] \notin Space
        /\ (c = Len(rstrip(l)) \/ l[c + 1] = " ")

RECURSIVE FieldsFrom(_, _)
\* the fields of the header lines from line i up to the blank line
FieldsFrom(lines, i) ==
    IF i > Len(lines) \/ ~IsFieldLine(lines[i]) THEN << >>
    ELSE LET c == find(lines[i], ":")
             value == strip(SubSeq(lines[i], c + 1, Len(lines[i])))
         IN  << Field(SubSeq(lines[i], 1, c - 1),
                      IF value = << >> THEN << >> ELSE << Paragraph(value) >>) >>
               \o FieldsFrom(lines, i + 1)

\* the tree the parser (rfc2822=True) builds for a document that is empty,
\* starts with "Name: value" lines closed by a blank line, starts with a
\* ":Name: value" field, or starts with text (what follows the first node is
\* not looked at by SEPHeaders.apply and is left out)
rst_tree(lines) ==
    IF lines = << >> THEN << >>
    ELSE IF IsFieldLine(lines[1])
    THEN << Node("field_list", { "rfc2822" }, FieldsFrom(lines, 1)) >>
    ELSE IF lines[1][1] = ":" /\ IsFieldLine(Tail(lines[1]))
    THEN << Node("field_list", { }, FieldsFrom(<< Tail(lines[1]) >>, 1)) >>
    ELSE << Node("paragraph", { }, << >>) >>

\* fix_rst_sep up to the transforms: the publisher reads and parses the source
FixRst ==
    /\ pc = "rst"
    /\ document' = rst_tree(input_lines)
    /\ pc' = "apply"
    /\ UNCHANGED << feedVars, args, argi, html, caller, stderr, exc, inpath, input_lines,
                    pos, header, sep, title, hi, need_pre, out, line, rendered >>

\* SEPHeaders.apply, then the writer and outfile.write(output); an exception
\* leaves the publisher and fix_rst_sep (settings_overrides: traceback)
Apply ==
    /\ pc = "apply"
    /\ LET r == SEPHeaders_apply(document)
       IN  /\ stderr' = IF r.warning = << >> THEN stderr ELSE Append(stderr, r.warning)
           /\ IF r.err # "none"
              THEN /\ pc' = "raised" /\ exc' = r.err
                   /\ UNCHANGED << out, html, argi >>
              ELSE /\ out' = << "<docutils output>" >>
                   /\ Return
                   /\ UNCHANGED exc
    /\ UNCHANGED << feedVars, document, args, caller, inpath, input_lines, pos, header, sep,
                    title, hi, need_pre, line, rendered >>

-----------------------------------------------------------------------------
(* main, find_sep, make_html, get_input_lines and get_sep_type.            *)
(* The command-line options keep their defaults (no install, no browse).   *)

\* the files of the working directory: path |-> lines
FS ==
    (<<"s","e","p","-","0","0","0","1",".","t","x","t">> :> << <<"S","e","p",":"," ","1","\n">>, <<"\n">>, <<" ","s","e","p","-","0","0","0","1",".","t","x","t","\n">> >>)
    @@ (<<"d","/","s","e","p","-","0","0","0","1",".","t","x","t">> :> << <<"S","e","p",":"," ","1","\n">>, <<"\n">>, <<" ","s","e","p","-","0","0","0","1",".","t","x","t","\n">> >>)
    @@ (<<"s","e","p","-","0","0","0","3",".","r","s","t">> :> << <<"S","e","p",":"," ","3","\n">>, <<"T","i","t","l","e",":"," ","T","\n">>, <<"C","o","n","t","e","n","t","-","T","y","p","e",":"," ","t","e","x","t","/","x","-","r","s","t","\n">>, <<"\n">> >>)
    @@ (<<"s","e","p","-","0","0","0","5",".","r","s","t">> :> << <<"S","e","p",":"," ","5","\n">>, <<"C","o","n","t","e","n","t","-","T","y","p","e",":"," ","t","e","x","t","/","x","-","r","s","t","\n">>, <<"\n">> >>)
    @@ (<<"s","e","p","-","0","0","0","4",".","t","x","t">> :> << <<"S","e","p",":"," ","4","\n">>, <<"R","e","p","l","a","c","e","s",":"," ","a","b","c","\n">>, <<"\n">> >>)
    @@ (<<"n","o","t","e","s",".","t","x","t">> :> << <<"h","e","l","l","o","\n">> >>)

\* os.path.exists(path)
exists(path) == path \in DOMAIN FS

\* sorted(glob.glob("sep-*.txt") + glob.glob("sep-*.rst"))
GlobFiles == << <<"s","e","p","-","0","0","0","1",".","t","x","t">>, <<"s","e","p","-","0","0","0","3",".","r","s","t">>, <<"s","e","p","-","0","0","0","4",".","t","x","t">>, <<"s","e","p","-","0","0","0","5",".","r","s","t">> >>

ArgPool == << <<"1">>, <<"2">>, <<"3">>, <<"4">>, <<"5">>, <<"s","e","p","-","0","0","0","1",".","t","x","t">>, <<"d","/","s","e","p","-","0","0","0","1",".","t","x","t">>,
              <<"n","o","f","i","l","e",".","t","x","t">>, <<"n","o","t","e","s",".","t","x","t">> >>

\* find_sep(sep_str): [err, path]
find_sep(sep_str) ==
    IF exists(sep_str) THEN [err |-> "none", path |-> sep_str]
    ELSE IF ~IsInt(sep_str) THEN [err |-> "ValueError", path |-> << >>]
    ELSE IF exists(<<"s","e","p","-">> \o Fmt_04d(int(sep_str)) \o <<".","r","s","t">>)
    THEN [err |-> "none", path |-> <<"s","e","p","-">> \o Fmt_04d(int(sep_str)) \o <<".","r","s","t">>]
    ELSE [err |-> "none", path |-> <<"s","e","p","-">> \o Fmt_04d(int(sep_str)) \o <<".","t","x","t">>]

RECURSIVE SepTypeFrom(_, _, _)
\* get_sep_type(input_lines) from line i on; "None" when the input is not a SEP
SepTypeFrom(lines, i, sep_type) ==
    IF i > Len(lines) THEN sep_type
    ELSE LET l == lower(rstrip(lines[i]))
         IN  IF l = << >> THEN sep_type
             ELSE IF startswith(l, <<"c","o","n","t","e","n","t","-","t","y","p","e",":"," ">>) THEN split_words(l)[2]
             ELSE IF startswith(l, <<"s","e","p",":"," ">>) THEN SepTypeFrom(lines, i + 1, <<"t","e","x","t","/","p","l","a","i","n">>)
             ELSE SepTypeFrom(lines, i + 1, sep_type)

get_sep_type(lines) == SepTypeFrom(lines, 1, <<"N","o","n","e">>)

\* the keys of SEP_TYPE_DISPATCH
SEP_TYPES == { <<"t","e","x","t","/","p","l","a","i","n">>, <<"t","e","x","t","/","x","-","r","s","t">> }

\* the documents main works through: the arguments, or every SEP of the directory
WorkList == IF args # << >> THEN args ELSE GlobFiles

\* the path of the k-th document: find_sep for an argument
WorkPath(k) ==
    IF args # << >> THEN find_sep(args[k]) ELSE [err |-> "none", path |-> WorkList[k]]

\* one pass of the loop of lines 714-721 (728-732) up to the call of the renderer
MainArg ==
    /\ pc = "main"
    /\ IF argi > Len(WorkList)
       THEN /\ pc' = "exit"
            /\ UNCHANGED << argi, stderr, exc, inpath, input_lines >>
       ELSE LET found == WorkPath(argi)
                file == found.path
                sep_type == get_sep_type(FS[file])
            IN  IF found.err # "none"
                THEN /\ pc' = "raised" /\ exc' = found.err
                     /\ UNCHANGED << argi, stderr, inpath, input_lines >>
                ELSE IF ~exists(file)
                THEN /\ stderr' = Append(stderr, << "Error: Skipping missing SEP file: " >> \o file)
                     /\ argi' = argi + 1
                     /\ pc' = "main"
                     /\ UNCHANGED << exc, inpath, input_lines >>
                ELSE IF sep_type = <<"N","o","n","e">>
                THEN /\ stderr' = Append(stderr, << "Error: Input file is not a SEP: " >> \o file)
                     /\ argi' = argi + 1
                     /\ pc' = "main"
                     /\ UNCHANGED << exc, inpath, input_lines >>
                ELSE IF sep_type \notin SEP_TYPES
                THEN /\ stderr' = Append(stderr, << "Error: Unknown SEP type for input file: " >> \o file)
                     /\ argi' = argi + 1
                     /\ pc' = "main"
                     /\ UNCHANGED << exc, inpath, input_lines >>
                ELSE /\ inpath' = file
                     /\ input_lines' = FS[file]
                     /\ pc' = IF sep_type = <<"t","e","x","t","/","p","l","a","i","n">> THEN "fixfile" ELSE "rst"
                     /\ UNCHANGED << argi, stderr, exc >>
    /\ UNCHANGED << feedVars, document, args, html, caller, pos, header, sep, title, hi, need_pre, out,
                    line, rendered >>

Next == MainArg \/ FixRst \/ Apply \/ Begin \/ HeadLine \/ Nav \/ TableRow \/ BodyLine \/ Finish

-----------------------------------------------------------------------------
(* Inputs of the line-substitution specification: a body line that reaches *)
(* fixpat.sub starts with white space and ends with its line break.        *)

Chunks == << <<"h","t","t","p",":">>, <<"h","t","t","p","s",":">>, <<"/","/","a">>, <<".">>, <<"&">>, <<"<">>,
             <<" ">>, <<"S","E","P"," ">>, <<"R","F","C">>, <<"1">>, <<"s","e","p","-">>, <<".","t","x","t">>, <<"f","t","p",":","R","F","C","7">> >>

RECURSIVE ChunkSeqs(_)
ChunkSeqs(n) ==
    IF n = 0 THEN { << >> }
    ELSE ChunkSeqs(n - 1)
           \cup { c \o << k >> : c \in { x \in ChunkSeqs(n - 1) : Len(x) = n - 1 },
                                 k \in 1..Len(Chunks) }

RECURSIVE ChunkText(_)
ChunkText(c) == IF c = << >> THEN << >> ELSE Chunks[Head(c)] \o ChunkText(Tail(c))

SubLines == { <<" ">> \o ChunkText(c) \o <<"\n">> : c \in ChunkSeqs(MaxChunks) }

SubPaths == { <<"s","e","p","-","1",".","t","x","t">>, <<"d","/","s","e","p","-","1",".","t","x","t">> }

\* the feed builder is not running
FeedIdle ==
    /\ files = << >> /\ epoch = << >> /\ seps = << >>
    /\ seps_with_dt = << >> /\ items = << >> /\ rss_n = << >>

\* the converter is not running
ConvIdle ==
    /\ args = << >> /\ argi = 1 /\ html = << >> /\ stderr = << >>
    /\ exc = "none" /\ caller = "none"
    /\ input_lines = << >> /\ pos = 1 /\ header = << >>
    /\ sep = << >> /\ title = << >> /\ hi = 1 /\ need_pre = 1 /\ out = << >>
    /\ document = << >>

Idle == FeedIdle /\ ConvIdle

InitSub ==
    /\ Idle
    /\ pc = "sub"
    /\ inpath \in SubPaths
    /\ line \in SubLines
    /\ rendered = << >>

\* line = fixpat.sub(lambda x, c=inpath: fixanchor(c, x), line)
ApplySub ==
    /\ pc = "sub"
    /\ rendered' = fixpat_sub(inpath, line)
    /\ pc' = "subdone"
    /\ UNCHANGED << feedVars, document, mainVars, fileVars, stderr, exc, out, line >>

NextSub == ApplySub

SpecSub == InitSub /\ [][NextSub]_vars

-----------------------------------------------------------------------------
(* Inputs of the fixfile specifications: documents made of lines of a pool. *)

HeaderPool == <<
    <<"S","e","p",":"," ","1","\n">>,
    <<"S","e","p",":"," ","x","\n">>,
    <<"T","i","t","l","e",":"," ","T","\n">>,
    <<"A","u","t","h","o","r",":"," ","J"," ","<","j","@","x",".","o","r","g",">",","," ","s","e","p","s","@","p","y","t","h","o","n",".","o","r","g","\n">>,
    <<"B","d","f","l","-","D","e","l","e","g","a","t","e",":"," ","P","y","t","h","o","n","-","D","e","v","@","p","y","t","h","o","n",".","o","r","g","\n">>,
    <<"D","i","s","c","u","s","s","i","o","n","s","-","T","o",":"," ","j","@","x",".","o","r","g","\n">>,
    <<"R","e","p","l","a","c","e","s",":"," ","1",","," ","2","\n">>,
    <<"R","e","q","u","i","r","e","s",":"," ","1",",","2","\n">>,
    <<"S","u","p","e","r","s","e","d","e","d","-","B","y",":"," ","a","b","c","\n">>,
    <<"R","e","p","l","a","c","e","s",":"," ","1","2","3","4","5"," ","7","\n">>,
    <<"L","a","s","t","-","M","o","d","i","f","i","e","d",":"," ","$","D","a","t","e",":"," ","2","0","2","0"," ","$","\n">>,
    <<"L","a","s","t","-","M","o","d","i","f","i","e","d",":","\n">>,
    <<" ","3","\n">>,
    <<"V","e","r","s","i","o","n",":"," ","$","R","e","v","i","s","i","o","n",":"," ","1"," ","$","\n">>,
    <<"C","o","n","t","e","n","t","-","T","y","p","e",":","\n">>,
    <<"X",":"," ","<","\n">>,
    <<"A","b","s","t","r","a","c","t","\n">> >>

BodyPool == <<
    <<"A","\n">>,
    <<" ","x","\n">>,
    <<"\n">>,
    <<" "," ","\n">>,
    <<"\f","\n">>,
    <<"L","o","c","a","l"," ","V","a","r","i","a","b","l","e","s",":","\n">>,
    <<" ","<","\n">>,
    <<" ","s","e","p","-","0","0","0","1",".","t","x","t","\n">>,
    <<" ","1"," ","2"," ","S","E","P"," ","3","\n">>,
    <<" ","1","2"," ","2"," ","x","\n">>,
    <<" ","j","@","x",".","o","r","g","\n">> >>

RECURSIVE SeqsUpTo(_, _)
\* the sequences of at most n elements of 1..k
SeqsUpTo(n, k) ==
    IF n = 0 THEN { << >> }
    ELSE SeqsUpTo(n - 1, k)
           \cup { c \o << j >> : c \in { x \in SeqsUpTo(n - 1, k) : Len(x) = n - 1 },
                                 j \in 1..k }

Pick(pool, c) == [i \in 1..Len(c) |-> pool[c[i]]]

HeaderDocs == { Pick(HeaderPool, c) \o t :
                  c \in SeqsUpTo(MaxHeader, Len(HeaderPool)),
                  t \in { << >>, << <<"\n">>, <<" ","x","\n">> >> } }

BodyDocs == { << <<"S","e","p",":"," ","1","\n">>, <<"\n">> >> \o Pick(BodyPool, c) :
                c \in SeqsUpTo(MaxBody, Len(BodyPool)) }

DocPaths == { <<"s","e","p","-","0","0","0","1",".","t","x","t">>, <<"s","e","p","-","0","0","0","0",".","t","x","t">>, <<"d","/","s","e","p","-","0","0","0","1",".","t","x","t">> }

\* fixfile(inpath, input_lines, outfile) is entered
InitFixfile(docs) ==
    /\ FeedIdle
    /\ args = << >> /\ argi = 1 /\ html = << >> /\ stderr = << >>
    /\ exc = "none" /\ caller = "none"
    /\ pc = "fixfile"
    /\ inpath \in DocPaths
    /\ input_lines \in docs
    /\ pos = 1 /\ header = << >> /\ sep = << >> /\ title = << >>
    /\ hi = 1 /\ need_pre = 1 /\ out = << >>
    /\ line = << >> /\ rendered = << >>
    /\ document = << >>

InitHeader == InitFixfile(HeaderDocs)
InitBody == InitFixfile(BodyDocs)

SpecHeader == InitHeader /\ [][NextFixfile]_vars
SpecBody == InitBody /\ [][NextFixfile]_vars

ArgLists == { Pick(ArgPool, c) : c \in SeqsUpTo(MaxArgs, Len(ArgPool)) }

\* main(argv) is entered
Init ==
    /\ FeedIdle
    /\ args \in ArgLists
    /\ argi = 1 /\ html = << >> /\ stderr = << >>
    /\ exc = "none" /\ caller = "main"
    /\ pc = "main"
    /\ inpath = << >> /\ input_lines = << >>
    /\ pos = 1 /\ header = << >> /\ sep = << >> /\ title = << >>
    /\ hi = 1 /\ need_pre = 1 /\ out = << >>
    /\ line = << >> /\ rendered = << >>
    /\ document = << >>

Spec == Init /\ [][Next]_vars

-----------------------------------------------------------------------------
(* Inputs of the transform specification: document trees.                  *)

\* the header fields of a generated tree
RstFieldPool ==
    << Field(<<"S","e","p">>, << Paragraph(<<"1">>) >>),
       Field(<<"S","E","P">>, << Paragraph(<<"0">>) >>),
       Field(<<"S","e","p">>, << Paragraph(<<"x">>) >>),
       Field(<<"S","e","p">>, << >>),
       Field(<<"T","i","t","l","e">>, << Paragraph(<<"T">>) >>),
       Field(<<"t","i","t","l","e">>, << >>),
       Field(<<"A","u","t","h","o","r">>, << Paragraph(<<"A">>) >>),
       Field(<<"R","e","p","l","a","c","e","s">>, << Paragraph(<<"1",","," ","2">>) >>),
       Field(<<"R","e","q","u","i","r","e","s">>, << Paragraph(<<"a","b","c">>) >>),
       Field(<<"V","e","r","s","i","o","n">>, << [kind |-> "bullet_list", text |-> <<"1">>] >>),
       Field(<<"L","a","s","t","-","M","o","d","i","f","i","e","d">>, << Paragraph(<<"a">>), Paragraph(<<"b">>) >>) >>

Trees ==
    { << >>, << Node("paragraph", { }, << >>) >>, << Node("section", { }, << >>) >> }
      \cup { << Node("field_list", cl, Pick(RstFieldPool, c)) >> \o rest :
               cl \in { { }, { "rfc2822" } },
               c \in SeqsUpTo(MaxFields, Len(RstFieldPool)) \ { << >> },
               rest \in { << >>, << Node("paragraph", { }, << >>) >> } }

\* the publisher has parsed the source and runs the transforms
InitRst ==
    /\ FeedIdle
    /\ args = << >> /\ argi = 1 /\ html = << >> /\ stderr = << >>
    /\ exc = "none" /\ caller = "none"
    /\ pc = "apply"
    /\ inpath = <<"s","e","p","-","0","0","0","3",".","r","s","t">>
    /\ input_lines = << >>
    /\ document \in Trees
    /\ pos = 1 /\ header = << >> /\ sep = << >> /\ title = << >>
    /\ hi = 1 /\ need_pre = 1 /\ out = << >>
    /\ line = << >> /\ rendered = << >>

NextRst == Apply

SpecRst == InitRst /\ [][NextRst]_vars

-----------------------------------------------------------------------------
(* The feed builder, sep2rss.py: a script, one action per statement or     *)
(* loop pass.                                                              *)

\* seps_with_dt[:10]
FeedSize == 10

\* the result of a function that may return None
None == [none |-> TRUE, v |-> << >>]
Some(s) == [none |-> FALSE, v |-> s]

\* "%s" % x
Fmt_s(x) == IF x.none THEN <<"N","o","n","e">> ELSE x.v

\* the order of the code points of the characters of a file name
OrdSeq == << "+", "-", ".", "/" >> \o DigitSeq \o UpperSeq \o << "_" >> \o LowerSeq
Ord(c) == CHOOSE k \in 1..Len(OrdSeq) : OrdSeq[k] = c

\* a < b for two sequences of integers compared element by element, as
\* Python compares tuples and strings
SeqLess(a, b) ==
    \E k \in 1..(Len(a) + 1) :
        /\ \A j \in 1..(k - 1) : j <= Len(b) /\ a[j] = b[j]
        /\ k <= Len(b)
        /\ (k > Len(a) \/ a[k] < b[k])

StrLess(a, b) == SeqLess([i \in 1..Len(a) |-> Ord(a[i])], [i \in 1..Len(b) |-> Ord(b[i])])
DtLess(a, b) == SeqLess(a, b)

\* (dt, full_path) < (dt, full_path)
PairLess(p, q) == DtLess(p[1], q[1]) \/ (p[1] = q[1] /\ StrLess(p[2], q[2]))

\* firstline_startingwith(full_path, text)
firstline_startingwith(full_path, text) ==
    LET ls == files[full_path]
        hits == { k \in 1..Len(ls) : startswith(ls[k], text) }
    IN  IF hits = { } THEN None
        ELSE LET k == CHOOSE h \in hits : \A g \in hits : h <= g
             IN  Some(strip(SubSeq(ls[k], Len(text) + 1, Len(ls[k]))))

\* \w
WordChar == Digit \cup Range(UpperSeq) \cup Range(LowerSeq) \cup { "_" }

\* (\d+-\w+-\d{4}) tried at position i: [d, w, y], the ends of the day, of the
\* word and of the year, or d = 0 when there is no match at i
DateMatchAt(s, i) ==
    LET d == RunEnd(s, i, Digit)
        w == RunEnd(s, d + 2, WordChar)
    IN  IF /\ d >= i /\ d + 1 <= Len(s) /\ s[d + 1] = "-"
           /\ w >= d + 2 /\ w + 5 <= Len(s) /\ s[w + 1] = "-"
           /\ \A k \in (w + 2)..(w + 5) : s[k] \in Digit
        THEN [d |-> d, w |-> w, y |-> w + 5]
        ELSE [d |-> 0, w |-> 0, y |-> 0]

\* re.search(r"(\d+-\w+-\d{4})", s): [b, d, w, y] of the leftmost match, b = 0: no match
re_search_date(s) ==
    LET starts == { i \in 1..Len(s) : DateMatchAt(s, i).d # 0 }
    IN  IF starts = { } THEN [b |-> 0, d |-> 0, w |-> 0, y |-> 0]
        ELSE LET b == CHOOSE i \in starts : \A j \in starts : i <= j
                 m == DateMatchAt(s, b)
             IN  [b |-> b, d |-> m.d, w |-> m.w, y |-> m.y]

\* the month names of %b and %B (C locale), compared without regard to case
MonthAbbr == << <<"j","a","n">>, <<"f","e","b">>, <<"m","a","r">>, <<"a","p","r">>, <<"m","a","y">>, <<"j","u","n">>,
                <<"j","u","l">>, <<"a","u","g">>, <<"s","e","p">>, <<"o","c","t">>, <<"n","o","v">>, <<"d","e","c">> >>
MonthName == << <<"j","a","n","u","a","r","y">>, <<"f","e","b","r","u","a","r","y">>, <<"m","a","r","c","h">>, <<"a","p","r","i","l">>, <<"m","a","y">>, <<"j","u","n","e">>,
                <<"j","u","l","y">>, <<"a","u","g","u","s","t">>, <<"s","e","p","t","e","m","b","e","r">>, <<"o","c","t","o","b","e","r">>, <<"n","o","v","e","m","b","e","r">>, <<"d","e","c","e","m","b","e","r">> >>

IsLeap(y) == y % 4 = 0 /\ (y % 100 # 0 \/ y % 400 = 0)
DaysIn(m, y) ==
    IF m = 2 THEN (IF IsLeap(y) THEN 29 ELSE 28)
    ELSE IF m \in { 4, 6, 9, 11 } THEN 30 ELSE 31

\* time.strptime(day-word-year, "%d-<months>-%Y"): [err, dt]
strptime(day, word, year, months) ==
    LET dayok == /\ Len(day) \in { 1, 2 }
                 /\ DigitsValue(day) \in 1..31
        mon == { k \in 1..12 : months[k] = lower(word) }
        y == DigitsValue(year)
    IN  IF ~dayok \/ mon = { } THEN [err |-> "ValueError", dt |-> << >>]
        ELSE LET m == CHOOSE k \in mon : TRUE
                 d == DigitsValue(day)
             IN  IF y < 1 \/ d > DaysIn(m, y)
                 THEN [err |-> "ValueError", dt |-> << >>]
                 ELSE [err |-> "none", dt |-> << y, m, d, 0, 0, 0 >>]

\* sep_creation_dt(full_path): [err, dt]
sep_creation_dt(full_path) ==
    LET created_str == firstline_startingwith(full_path, <<"C","r","e","a","t","e","d",":">>)
        m == re_search_date(created_str.v)
        day == SubSeq(created_str.v, m.b, m.d)
        word == SubSeq(created_str.v, m.d + 2, m.w)
        year == SubSeq(created_str.v, m.w + 2, m.y)
        t == strptime(day, word, year, MonthAbbr)
    IN  IF created_str.none THEN [err |-> "TypeError", dt |-> << >>]
        ELSE IF m.b = 0 THEN [err |-> "none", dt |-> epoch]
        ELSE IF t.err = "none" THEN t
        ELSE strptime(day, word, year, MonthName)

RECURSIVE InsertDesc(_, _)
InsertDesc(x, s) ==
    IF s = << >> THEN << x >>
    ELSE IF PairLess(Head(s), x) THEN << x >> \o s
    ELSE << Head(s) >> \o InsertDesc(x, Tail(s))

RECURSIVE SortDesc(_)
\* list.sort(reverse=True)
SortDesc(s) == IF s = << >> THEN << >> ELSE InsertDesc(Head(s), SortDesc(Tail(s)))

RECURSIVE Ascending(_)
\* the names of a set in ascending order
Ascending(S) ==
    IF S = { } THEN << >>
    ELSE LET x == CHOOSE a \in S : \A b \in S : a = b \/ StrLess(a, b)
         IN  << x >> \o Ascending(S \ { x })

\* glob.glob("sep-*" + ext); the order is that of the directory listing, taken
\* here as ascending (the sort that follows does not depend on it)
glob(ext) ==
    Ascending({ f \in DOMAIN files : startswith(f, <<"s","e","p","-">>) /\ endswith(f, ext)
                                       /\ Len(f) >= 4 + Len(ext) })

\* full_path.split("-")[-1].split(".")[0]
NumberPart(full_path) ==
    LET last == SubSeq(full_path, rfind(full_path, "-") + 1, Len(full_path))
    IN  IF find(last, ".") = 0 THEN last ELSE SubSeq(last, 1, find(last, ".") - 1)

\* "http://www.python.org/dev/seps/sep-%0.4d" % n
FeedUrl(num) ==
    <<"h","t","t","p",":","/","/","w","w","w",".","p","y","t","h","o","n",".","o","r","g","/","d","e","v","/","s","e","p","s","/","s","e","p","-">>
        \o (IF num < 0 THEN << "-" >> \o ZeroPad(NatDigits(0 - num), 4) ELSE ZeroPad(NatDigits(num), 4))

\* rssgen.RSSItem(...)
RSSItem(num, dt, full_path) ==
    [title |-> <<"S","E","P"," ">> \o Fmt_d(num) \o <<":"," ">>
                  \o Fmt_s(firstline_startingwith(full_path, <<"T","i","t","l","e",":">>)),
     link |-> FeedUrl(num),
     description |-> <<"A","u","t","h","o","r",":"," ">> \o Fmt_s(firstline_startingwith(full_path, <<"A","u","t","h","o","r",":">>)),
     guid |-> FeedUrl(num),
     pubDate |-> dt]

\* what the converter's names hold while the feed builder runs
convVars == << args, argi, html, stderr, caller, inpath, input_lines, pos, header, sep,
               title, hi, need_pre, line, rendered, document >>

\* lines 21-22
Glob ==
    /\ pc = "rss"
    /\ seps' = glob(<<".","t","x","t">>) \o glob(<<".","r","s","t">>)
    /\ pc' = IF seps' = << >> THEN "rss_sort" ELSE "rss_scan"
    /\ UNCHANGED << convVars, files, epoch, seps_with_dt, items, rss_n, exc, out >>

\* line 44, one document
Scan ==
    /\ pc = "rss_scan"
    /\ LET full_path == seps[Len(seps_with_dt) + 1]
           r == sep_creation_dt(full_path)
       IN  IF r.err # "none"
           THEN /\ pc' = "raised" /\ exc' = r.err
                /\ UNCHANGED seps_with_dt
           ELSE /\ seps_with_dt' = Append(seps_with_dt, << r.dt, full_path >>)
                /\ pc' = IF Len(seps_with_dt') = Len(seps) THEN "rss_sort" ELSE "rss_scan"
                /\ UNCHANGED exc
    /\ UNCHANGED << convVars, files, epoch, seps, items, rss_n, out >>

\* line 46
Sort ==
    /\ pc = "rss_sort"
    /\ seps_with_dt' = SortDesc(seps_with_dt)
    /\ pc' = IF seps_with_dt = << >> THEN "rss_write" ELSE "rss_items"
    /\ UNCHANGED << convVars, files, epoch, seps, items, rss_n, exc, out >>

\* lines 50-65, one pass of the loop
Item ==
    /\ pc = "rss_items"
    /\ LET dt == seps_with_dt[Len(items) + 1][1]
           full_path == seps_with_dt[Len(items) + 1][2]
           bound == IF IsInt(NumberPart(full_path))
                    THEN << int(NumberPart(full_path)) >> ELSE rss_n
       IN  IF bound = << >>
           THEN /\ pc' = "raised" /\ exc' = "NameError"
                /\ UNCHANGED << items, rss_n >>
           ELSE /\ rss_n' = bound
                /\ items' = Append(items, RSSItem(bound[1], dt, full_path))
                /\ pc' = IF Len(items') = Len(seps_with_dt) \/ Len(items') = FeedSize
                         THEN "rss_write" ELSE "rss_items"
                /\ UNCHANGED exc
    /\ UNCHANGED << convVars, files, epoch, seps, seps_with_dt, out >>

\* lines 73-82: the feed with its items is written to RSS_PATH
WriteFeed ==
    /\ pc = "rss_write"
    /\ out' = items
    /\ pc' = "done"
    /\ UNCHANGED << convVars, feedVars, exc >>

NextRss == Glob \/ Scan \/ Sort \/ Item \/ WriteFeed

-----------------------------------------------------------------------------
(* Inputs of the feed specification: directories of numbered documents,    *)
(* with at most one more document that has something special.             *)

FeedDoc(created) == << <<"T","i","t","l","e",":"," ","T","\n">>, <<"A","u","t","h","o","r",":"," ","A"," ","<","a","@","x",".","o","r","g",">","\n">> >> \o created

\* the Created lines of the numbered documents
CreatedPool ==
    << << <<"C","r","e","a","t","e","d",":"," ","0","1","-","J","a","n","-","2","0","2","0","\n">> >>,
       << <<"C","r","e","a","t","e","d",":"," ","0","2","-","J","a","n","-","2","0","2","0","\n">> >>,
       << <<"C","r","e","a","t","e","d",":"," ","1","5","-","F","e","b","-","2","0","1","9","\n">> >>,
       << <<"C","r","e","a","t","e","d",":"," ","2","-","J","a","n","u","a","r","y","-","2","0","2","0"," ","(","r","e","v","i","s","e","d",")","\n">> >>,
       << <<"C","r","e","a","t","e","d",":","\n">> >> >>

FeedName(i) == <<"s","e","p","-">> \o Fmt_04d(i) \o (IF i % 2 = 0 THEN <<".","r","s","t">> ELSE <<".","t","x","t">>)

RECURSIVE NumberedDocs(_, _, _)
\* documents 1..k, the Created line of document i taken from the pool at a*i + b
NumberedDocs(k, a, b) ==
    IF k = 0 THEN [f \in { } |-> << >>]
    ELSE NumberedDocs(k - 1, a, b)
           @@ (FeedName(k) :> FeedDoc(CreatedPool[((a * k + b) % Len(CreatedPool)) + 1]))

SpecialDocs ==
    { [f \in { } |-> << >>],
      <<"s","e","p","-","x",".","t","x","t">> :> FeedDoc(<< <<"C","r","e","a","t","e","d",":"," ","0","3","-","J","a","n","-","2","0","2","0","\n">> >>),
      <<"s","e","p","-","x",".","t","x","t">> :> FeedDoc(<< <<"C","r","e","a","t","e","d",":"," ","2","0","-","F","e","b","-","2","0","1","9","\n">> >>),
      <<"s","e","p","-","0","0","9","9",".","t","x","t">> :> FeedDoc(<< >>),
      <<"s","e","p","-","0","0","9","9",".","r","s","t">> :> FeedDoc(<< <<"C","r","e","a","t","e","d",":"," ","s","o","o","n","\n">> >>),
      <<"s","e","p","-","0","0","9","9",".","t","x","t">> :> FeedDoc(<< <<"C","r","e","a","t","e","d",":"," ","0","1","-","J","a","n","-","1","9","6","0","\n">> >>),
      <<"s","e","p","-","0","0","9","9",".","t","x","t">> :> FeedDoc(<< <<"C","r","e","a","t","e","d",":"," ","3","1","-","F","e","b","-","2","0","2","0","\n">> >>),
      <<"n","o","t","e","s",".","t","x","t">> :> FeedDoc(<< <<"C","r","e","a","t","e","d",":"," ","0","4","-","J","a","n","-","2","0","2","0","\n">> >>) }

FeedDirs ==
    { NumberedDocs(k, a, b) @@ s :
        k \in 0..MaxFeedDocs, a \in 0..2, b \in 0..1, s \in SpecialDocs }

\* datetime.datetime(*time.localtime(0)[:6]) in the zones UTC, UTC-5 and UTC+1
Epochs == { << 1970, 1, 1, 0, 0, 0 >>, << 1969, 12, 31, 19, 0, 0 >>, << 1970, 1, 1, 1, 0, 0 >> }

InitRss ==
    /\ ConvIdle
    /\ inpath = << >> /\ line = << >> /\ rendered = << >>
    /\ files \in FeedDirs
    /\ epoch \in Epochs
    /\ seps = << >> /\ seps_with_dt = << >> /\ items = << >> /\ rss_n = << >>
    /\ pc = "rss"

SpecRss == InitRss /\ [][NextRss]_vars

-----------------------------------------------------------------------------
(* Reading the rendered text back. *)

\* first index >= i of atom a in r; 0 when there is none
IndexFrom(r, i, a) ==
    IF \E k \in i..Len(r) : r[k] = a
    THEN CHOOSE k \in i..Len(r) : r[k] = a /\ \A j \in i..(k - 1) : r[j] # a
    ELSE 0

RECURSIVE AnchorsFrom(_, _)
\* the anchors of r from index i on, in order: [href, text]
AnchorsFrom(r, i) ==
    LET a == IndexFrom(r, i, "<a href=\"")
        q == IndexFrom(r, a + 1, "\">")
        c == IndexFrom(r, q + 1, "</a>")
    IN  IF a = 0 \/ q = 0 \/ c = 0 THEN << >>
        ELSE << [href |-> SubSeq(r, a + 1, q - 1), text |-> SubSeq(r, q + 1, c - 1)] >>
               \o AnchorsFrom(r, c + 1)

AnchorsOf(r) == AnchorsFrom(r, 1)

RECURSIVE UnlinkFrom(_, _)
\* r from index i on with the anchor tags removed and the anchors' texts kept
UnlinkFrom(r, i) ==
    IF i > Len(r) THEN << >>
    ELSE IF r[i] = "<a href=\"" THEN UnlinkFrom(r, IndexFrom(r, i, "\">") + 1)
    ELSE IF r[i] = "</a>" THEN UnlinkFrom(r, i + 1)
    ELSE << r[i] >> \o UnlinkFrom(r, i + 1)

Unlink(r) == UnlinkFrom(r, 1)

\* r holds p as a contiguous part
Contains(r, p) == \E k \in 1..(Len(r) - Len(p) + 1) : SubSeq(r, k, k + Len(p) - 1) = p

\* the number of anchors of r whose text starts with one of the prefixes
CountAnchors(r, prefixes) ==
    Cardinality({ k \in 1..Len(AnchorsOf(r)) :
                    \E p \in prefixes : startswith(AnchorsOf(r)[k].text, p) })

-----------------------------------------------------------------------------
(* The URLs and cross-reference tokens of a line, stated without the scan. *)

Schemes == { <<"h","t","t","p",":">>, <<"h","t","t","p","s",":">>, <<"f","t","p",":">> }

\* s[i..e] is a scheme, a colon and the longest run of URL characters after it
IsUrlSpan(s, i, e) ==
    \E sch \in Schemes :
        /\ StartsAt(s, i, sch)
        /\ e >= i + Len(sch) /\ e <= Len(s)
        /\ \A k \in (i + Len(sch))..e : s[k] \in UrlChar
        /\ (e = Len(s) \/ s[e + 1] \notin UrlChar)

\* position i lies in a URL that starts before it
InsideUrl(s, i) == \E j \in 1..(i - 1), e \in i..Len(s) : IsUrlSpan(s, j, e)

UrlSpans(s) == { sp \in (1..Len(s)) \X (1..Len(s)) :
                    IsUrlSpan(s, sp[1], sp[2]) /\ ~InsideUrl(s, sp[1]) }

ClaimPunct == { "(", ")", ";", ":", ",", ".", "?", "'", "\"", "<", ">" }

\* u without its trailing punctuation: the prefix that ends in a character
\* that is no punctuation and is followed by punctuation only
Trimmed(u) ==
    LET n == CHOOSE n \in 0..Len(u) :
                 /\ (n = 0 \/ u[n] \notin ClaimPunct)
                 /\ \A k \in (n + 1)..Len(u) : u[k] \in ClaimPunct
    IN  SubSeq(u, 1, n)

\* C1: in a body line handed to the combined pattern, each http/https/ftp URL
\* is rendered as an anchor whose href is the URL without its trailing
\* punctuation, no other URL anchor is rendered, and the rendered line with
\* the anchor tags removed is the HTML-escaped line, in the original order.
C1_UrlAnchors ==
    pc = "subdone" =>
        /\ \A sp \in UrlSpans(line) :
               LET u == SubSeq(line, sp[1], sp[2])
               IN  Contains(rendered, Anchor(Trimmed(u), u))
        /\ CountAnchors(rendered, Schemes) = Cardinality(UrlSpans(line))
        /\ Unlink(rendered) = escape(line)

\* a URL with a path and trailing punctuation was rendered
C1_Witness ==
    /\ pc = "subdone"
    /\ \E sp \in UrlSpans(line) :
           LET u == SubSeq(line, sp[1], sp[2])
           IN  Trimmed(u) # u /\ \E k \in 1..Len(u) : u[k] = "/"


\* s[i..e] is a token SEP <n>: "SEP", white space, the digits of n
IsSepRef(s, i, e) ==
    /\ StartsAt(s, i, <<"S","E","P">>)
    /\ \E w \in (i + 3)..(e - 1) :
           /\ \A k \in (i + 3)..w : s[k] \in Space
           /\ \A k \in (w + 1)..e : s[k] \in Digit
    /\ e <= Len(s) /\ (e = Len(s) \/ s[e + 1] \notin Digit)

\* s[i..e] is a token RFC <n>, RFC-<n> or RFC<n>
IsRfcRef(s, i, e) ==
    /\ StartsAt(s, i, <<"R","F","C">>)
    /\ \E d \in { i + 3, i + 4 } :
           /\ d <= e
           /\ d = i + 4 => s[i + 3] \in { "-", " " }
           /\ \A k \in d..e : s[k] \in Digit
    /\ e <= Len(s) /\ (e = Len(s) \/ s[e + 1] \notin Digit)

SepRefs(s) == { sp \in (1..Len(s)) \X (1..Len(s)) : IsSepRef(s, sp[1], sp[2]) }
RfcRefs(s) == { sp \in (1..Len(s)) \X (1..Len(s)) : IsRfcRef(s, sp[1], sp[2]) }

\* the digits at the end of a token
RefDigits(s, sp) == SubSeq(s, RunStart(s, sp[2], Digit), sp[2])

\* a number's digits without leading zeros
NoLeadingZeros(ds) ==
    LET z == RunEnd(ds, 1, {"0"})
    IN  IF z = Len(ds) THEN << "0" >> ELSE SubSeq(ds, z + 1, Len(ds))

\* sep-NNNN.html: the number zero-padded to four digits
SepPage(ds) ==
    LET n == NoLeadingZeros(ds)
    IN  <<"s","e","p","-">> \o SubSeq(<<"0","0","0">>, 1, 4 - Len(n)) \o n \o <<".","h","t","m","l">>

RfcPage(ds) == <<"h","t","t","p",":","/","/","w","w","w",".","f","a","q","s",".","o","r","g","/","r","f","c","s","/","r","f","c">> \o NoLeadingZeros(ds) \o <<".","h","t","m","l">>

\* C2: in a body line handed to the combined pattern, every SEP <n> token
\* that does not lie in a matched URL is rendered as a link to sep-NNNN.html
\* of n and every RFC <n> token as a link to the RFC page of n; a token that
\* starts inside a matched URL is not linked separately.
C2_CrossReferences ==
    pc = "subdone" =>
        /\ \A sp \in SepRefs(line) :
               ~InsideUrl(line, sp[1]) =>
                   Contains(rendered, Anchor(SepPage(RefDigits(line, sp)),
                                             SubSeq(line, sp[1], sp[2])))
        /\ \A sp \in RfcRefs(line) :
               ~InsideUrl(line, sp[1]) =>
                   Contains(rendered, Anchor(RfcPage(RefDigits(line, sp)),
                                             SubSeq(line, sp[1], sp[2])))
        /\ CountAnchors(rendered, { <<"S","E","P">> })
             = Cardinality({ sp \in SepRefs(line) : ~InsideUrl(line, sp[1]) })
        /\ CountAnchors(rendered, { <<"R","F","C">> })
             = Cardinality({ sp \in RfcRefs(line) : ~InsideUrl(line, sp[1]) })

\* a line with a linked SEP token and an RFC token inside a URL was rendered
C2_Witness ==
    /\ pc = "subdone"
    /\ \E sp \in SepRefs(line) : ~InsideUrl(line, sp[1])
    /\ \E sp \in RfcRefs(line) : InsideUrl(line, sp[1])


-----------------------------------------------------------------------------
(* Reading the header table back. *)

RECURSIVE RowsFrom(_, _)
\* the cells of the rows of the header table written so far, in order
RowsFrom(r, i) ==
    LET a == IndexFrom(r, i, "  <tr><th>")
        q == IndexFrom(r, a + 1, ":&nbsp;</th><td>")
        c == IndexFrom(r, q + 1, "</td></tr>")
    IN  IF a = 0 \/ q = 0 \/ c = 0 THEN << >>
        ELSE << SubSeq(r, q + 1, c - 1) >> \o RowsFrom(r, c + 1)

Rows == RowsFrom(out, 1)

\* the entries of a comma-separated value, stated by their positions
EntrySpans(v) ==
    { sp \in (1..Len(v)) \X (1..Len(v)) :
        /\ sp[1] <= sp[2]
        /\ (sp[1] = 1 \/ v[sp[1] - 1] = ",")
        /\ (sp[2] = Len(v) \/ v[sp[2] + 1] = ",")
        /\ \A k \in sp[1]..sp[2] : v[k] # "," }

\* an address: no white space, brackets or commas, and an "@" inside it
IsAddress(a) ==
    /\ \E k \in 2..(Len(a) - 1) : a[k] = "@"
    /\ \A k \in 1..Len(a) : a[k] \notin Space \cup { "<", ">", "," }

\* the address of an entry "addr" or "Real Name <addr>"; << >> for any other entry
EntryAddress(e) ==
    LET t == strip(e)
        lt == find(t, "<")
    IN  IF IsAddress(t) THEN t
        ELSE IF lt > 0 /\ t[Len(t)] = ">" /\ IsAddress(SubSeq(t, lt + 1, Len(t) - 1))
        THEN SubSeq(t, lt + 1, Len(t) - 1)
        ELSE << >>

MailKeys == { <<"a","u","t","h","o","r">>, <<"b","d","f","l","-","d","e","l","e","g","a","t","e">>, <<"d","i","s","c","u","s","s","i","o","n","s","-","t","o">> }

\* the masked form of an address between the brackets of its entry
MaskedEntry(a) ==
    << "&lt;" >> \o SubSeq(a, 1, find(a, "@") - 1) \o << "&#32;&#97;t&#32;" >>
        \o SubSeq(a, find(a, "@") + 1, Len(a)) \o << "&gt;" >>

\* the opening tag of the mailto link of an address, the subject naming the number
MailtoTag(a, number) ==
    << "<a href=\"mailto:" >> \o SubSeq(a, 1, find(a, "@") - 1) \o << "&#64;" >>
        \o SubSeq(a, find(a, "@") + 1, Len(a)) \o << "?subject=SEP%20" >> \o number \o << "\">" >>

\* the rows of the mail headers written so far render every address as the
\* rule Linked(key, address) says: a mailto link, or masked and not linked
MailRowsFollow(Linked(_, _)) ==
    \A k \in 1..Len(Rows) :
        lower(header[k][1]) \in MailKeys =>
            \A sp \in EntrySpans(header[k][2]) :
                LET a == EntryAddress(SubSeq(header[k][2], sp[1], sp[2]))
                IN  a # << >> =>
                        IF Linked(lower(header[k][1]), a)
                        THEN Contains(Rows[k], MailtoTag(a, sep))
                        ELSE /\ Contains(Rows[k], MaskedEntry(a))
                             /\ ~Contains(Rows[k], MailtoTag(a, sep))

OnAllowList(key, a) == lower(a) \in NON_MASKED_EMAILS
OnAllowListOrDiscussion(key, a) == lower(a) \in NON_MASKED_EMAILS \/ key = <<"d","i","s","c","u","s","s","i","o","n","s","-","t","o">>

\* C3 as claimed: in the Author, Bdfl-Delegate and Discussions-To rows every
\* address is masked and not linked, unless it is on the allow-list, and then
\* it is a mailto link whose subject names the proposal number.
C3_AsClaimed == MailRowsFollow(OnAllowList)

\* C3: in the Author and Bdfl-Delegate rows every address is masked and not
\* linked, unless it is on the allow-list, and then it is a mailto link whose
\* subject names the proposal number; in the Discussions-To row every address
\* is such a mailto link, on the allow-list or not.
C3_MailMasking == MailRowsFollow(OnAllowListOrDiscussion)

\* the rows of SEP 1 with a masked and an allow-listed author were written
C3_Witness ==
    /\ Len(Rows) = 2
    /\ header[1] = << <<"S","e","p">>, <<"1">> >>
    /\ lower(header[2][1]) = <<"a","u","t","h","o","r">>
    /\ \E sp \in EntrySpans(header[2][2]) :
           LET a == EntryAddress(SubSeq(header[2][2], sp[1], sp[2]))
           IN  a # << >> /\ OnAllowList(<<"a","u","t","h","o","r">>, a)
    /\ \E sp \in EntrySpans(header[2][2]) :
           LET a == EntryAddress(SubSeq(header[2][2], sp[1], sp[2]))
           IN  a # << >> /\ ~OnAllowList(<<"a","u","t","h","o","r">>, a)

-----------------------------------------------------------------------------
(* Replaces, Superseded-By, Requires *)

ListKeys == { <<"r","e","p","l","a","c","e","s">>, <<"s","u","p","e","r","s","e","d","e","d","-","b","y">>, <<"r","e","q","u","i","r","e","s">> }

\* the maximal runs of s[i..j] whose characters are all in C, as positions
RunSpans(s, C) ==
    { sp \in (1..Len(s)) \X (1..Len(s)) :
        /\ sp[1] <= sp[2]
        /\ \A k \in sp[1]..sp[2] : s[k] \in C
        /\ (sp[1] = 1 \/ s[sp[1] - 1] \notin C)
        /\ (sp[2] = Len(s) \/ s[sp[2] + 1] \notin C) }

\* a list of integers separated by commas and/or white space
IsIntegerList(v) ==
    /\ v # << >>
    /\ \A k \in 1..Len(v) : v[k] \in Digit \cup Space \cup { "," }
    /\ v[1] \in Digit /\ v[Len(v)] \in Digit
    /\ \A sp \in RunSpans(v, Space \cup { "," }) :
           Cardinality({ k \in sp[1]..sp[2] : v[k] = "," }) <= 1

\* a list of integers, each separated from the next by white space that one
\* comma may precede
IsSpacedIntegerList(v) ==
    /\ IsIntegerList(v)
    /\ \A sp \in RunSpans(v, Space \cup { "," }) :
           /\ \A k \in (sp[1] + 1)..sp[2] : v[k] \in Space
           /\ \E k \in sp[1]..sp[2] : v[k] \in Space

RECURSIVE LinksFrom(_, _)
\* one link per integer of v from position i on, in the order of the list
LinksFrom(v, i) ==
    LET b == RunEnd(v, i, Space \cup { "," }) + 1
        e == RunEnd(v, b, Digit)
    IN  IF b > Len(v) THEN << >>
        ELSE << "<a href=\"" >> \o SepPage(SubSeq(v, b, e)) \o << "\">" >>
               \o NoLeadingZeros(SubSeq(v, b, e)) \o << "</a>", " " >> \o LinksFrom(v, e + 1)

\* every row of a list header whose value is in the class L is rendered, as
\* one link per integer, and the conversion does not fail at it
ListRowsLinked(L(_)) ==
    \A k \in 1..Len(header) :
        (lower(header[k][1]) \in ListKeys /\ L(header[k][2])) =>
            /\ ~(pc = "raised" /\ hi = k)
            /\ k <= Len(Rows) => Rows[k] = LinksFrom(header[k][2], 1)

\* C4 as claimed: for a Replaces, Superseded-By or Requires header whose value
\* is a list of integers separated by commas and/or white space, one link per
\* integer is emitted, in order, each to sep-NNNN.html.
C4_AsClaimed == ListRowsLinked(IsIntegerList)

\* C4: for a Replaces, Superseded-By or Requires header whose value is a list
\* of integers, each separated from the next by white space that one comma may
\* precede, one link per integer is emitted, in order, each to sep-NNNN.html
\* with the integer zero-padded to four digits.
C4_ListLinks == ListRowsLinked(IsSpacedIntegerList)

\* the row of a list of two integers was written
C4_Witness ==
    \E k \in 1..Len(Rows) :
        /\ lower(header[k][1]) \in ListKeys
        /\ IsSpacedIntegerList(header[k][2])
        /\ Cardinality(RunSpans(header[k][2], Digit)) = 2
        /\ find(header[k][2], ",") > 0

-----------------------------------------------------------------------------
(* The body *)

\* what has been written after the opening of the content division
BodyOut ==
    LET c == IndexFrom(out, 1, "<div class=\"content\">")
    IN  IF c = 0 THEN << >> ELSE SubSeq(out, c + 2, Len(out))

IsPreTag(a) == a \in { "<pre>", "</pre>" }
PreTags(r) == SelectSeq(r, IsPreTag)

Closing == << "</div>", "\n", "</body>", "\n", "</html>", "\n" >>

\* the tags of the preformatted blocks alternate from <pre> on, a block is
\* open exactly when need_pre is 0, no heading is written in an open block,
\* and no block is open once the closing tags are written
C5_Blocks ==
    LET tags == PreTags(BodyOut)
    IN  /\ \A i \in 1..Len(tags) : tags[i] = IF i % 2 = 1 THEN "<pre>" ELSE "</pre>"
        /\ pc \in { "body", "tail" } => (need_pre = 0 <=> Len(tags) % 2 = 1)
        /\ \A i \in 1..Len(BodyOut) :
               BodyOut[i] = "<h3>" => Len(PreTags(SubSeq(BodyOut, 1, i))) % 2 = 0
        /\ pc = "done" =>
               /\ Len(tags) % 2 = 0
               /\ Len(BodyOut) >= Len(Closing)
               /\ SubSeq(BodyOut, Len(BodyOut) - Len(Closing) + 1, Len(BodyOut)) = Closing
               /\ PreTags(Closing) = << >>

\* a step of the body loop on a heading closes the open block before the
\* heading's tag; on a line that is neither blank, a heading, a form feed line
\* nor the marker it opens a block if none is open; the end of the body
\* closes the open block
C5_Step ==
    /\ (pc = "body" /\ pos <= Len(input_lines)) =>
           LET l == input_lines[pos]
           IN  IF l[1] = "\f" \/ strip(l) = LOCALVARS THEN out' = out
               ELSE IF l[1] \notin Space
               THEN /\ need_pre' = 1
                    /\ SubSeq(out', Len(out) + 1, Len(out) + 3)
                         = IF need_pre = 0 THEN << "</pre>", "\n", "<h3>" >>
                           ELSE << "<h3>" >> \o SubSeq(out', Len(out) + 2, Len(out) + 3)
               ELSE IF strip(l) # << >> /\ pc' # "raised"
               THEN /\ need_pre' = 0
                    /\ need_pre = 1 => SubSeq(out', Len(out) + 1, Len(out) + 2) = << "<pre>", "\n" >>
                    /\ need_pre = 0 => ~IsPreTag(out'[Len(out) + 1])
               ELSE TRUE
    /\ pc = "tail" =>
           out' = out \o (IF need_pre = 0 THEN << "</pre>", "\n" >> ELSE << >>) \o Closing

-----------------------------------------------------------------------------
(* The document number *)

\* the Sep header has a value that is no integer
BadNumber == sep # << >> /\ \E k \in 1..Len(sep) : sep[k] \notin Digit

\* C6: when the Sep header value is no valid integer, a warning is written to
\* the error stream, the "SEP Source" link is omitted and the rendering goes
\* on: it does not fail at the number, and at its end every header field has
\* its row (Last-Modified too), the body is written and the tags are closed.
C6_InvalidNumber ==
    BadNumber =>
        /\ pc \in { "table", "body", "tail", "done" } =>
               /\ \E i \in 1..Len(stderr) : stderr[i][1] = "ValueError (invalid SEP number): "
               /\ \A i \in 1..Len(out) : out[i] # "\">SEP Source</a></b>]"
        /\ pc = "raised" =>
               /\ hi <= Len(header)
               /\ lower(header[hi][1]) \in ListKeys \cup MailKeys
        /\ pc = "done" =>
               /\ Len(Rows) = Len(header)
               /\ \A k \in 1..Len(header) :
                      lower(header[k][1]) = <<"l","a","s","t","-","m","o","d","i","f","i","e","d">> => Rows[k] # << >>
               /\ IndexFrom(out, 1, "<div class=\"content\">") > 0
               /\ SubSeq(out, Len(out) - Len(Closing) + 1, Len(out)) = Closing

\* a document with a malformed number and a Last-Modified field was rendered
C6_Witness ==
    /\ pc = "done"
    /\ BadNumber
    /\ \E k \in 1..Len(header) : lower(header[k][1]) = <<"l","a","s","t","-","m","o","d","i","f","i","e","d">>
    /\ BodyOut # Closing

-----------------------------------------------------------------------------
(* Missing input files *)

\* the input file of an argument does not exist
InputMissing(a) ==
    /\ a \notin DOMAIN FS
    /\ \A ext \in { <<".","t","x","t">>, <<".","r","s","t">> } :
           \A ds \in { a } :
               (\A k \in 1..Len(ds) : ds[k] \in Digit) =>
                   (<<"s","e","p","-">> \o SubSeq(<<"0","0","0">>, 1, 4 - Len(ds)) \o ds \o ext) \notin DOMAIN FS

\* C7: an argument whose input file does not exist is reported to the error
\* stream and skipped, and the run goes on with the arguments after it: the
\* run does not end at that argument.
C7_MissingInputSkipped ==
    \A k \in 1..Len(args) :
        InputMissing(args[k]) =>
            /\ ~(pc = "raised" /\ argi = k)
            /\ argi > k =>
                   \E i \in 1..Len(stderr) : stderr[i][1] = "Error: Skipping missing SEP file: "

-----------------------------------------------------------------------------
(* Malformed list entries *)

HasLetter(v) == \E k \in 1..Len(v) : v[k] \in Range(UpperSeq) \cup Range(LowerSeq)

C8_Step ==
    /\ (/\ pc = "table" /\ hi <= Len(header)
        /\ lower(header[hi][1]) \in ListKeys
        /\ HasLetter(header[hi][2]))
           => (pc' = "raised" /\ exc' = "ValueError" /\ out' = out)
    /\ pc = "raised" => pc' = "raised"

\* C8: if a token of a Replaces, Superseded-By or Requires value is no valid
\* integer, the step that renders the row raises ValueError, writes nothing,
\* and no step of fixfile handles the exception.
C8_BadListAborts == [][C8_Step]_vars

\* the conversion failed at the row of a list header with a token "abc"
C8_Witness ==
    /\ pc = "raised" /\ exc = "ValueError"
    /\ hi = 2 /\ Len(Rows) = 1
    /\ lower(header[hi][1]) \in ListKeys
    /\ HasLetter(header[hi][2])

-----------------------------------------------------------------------------
(* The document's own file name *)

\* C9: in a body line, the file name of the document being converted is
\* written as plain escaped text, without a link, whatever the input path.
C9_OwnNameNotLinked ==
    pc \in { "body", "tail" } =>
        ~Contains(BodyOut, Anchor(splitext_root(basename_of(inpath)) \o <<".","h","t","m","l">>,
                                  basename_of(inpath)))

-----------------------------------------------------------------------------
(* Round trip *)

\* the lines after the blank line that ends the header
BodyLines ==
    LET b == CHOOSE i \in 1..(Len(input_lines) + 1) :
                 /\ (i = Len(input_lines) + 1 \/ strip(input_lines[i]) = << >>)
                 /\ \A k \in 1..(i - 1) : strip(input_lines[k]) # << >>
    IN  SubSeq(input_lines, b + 1, Len(input_lines))

\* no URL, file-name token, cross-reference token or HTML-special character
NoSpecialToken(l) ==
    /\ \A k \in 1..Len(l) : l[k] \notin { "&", "<", ">", "\"", "'" }
    /\ \A i \in 1..Len(l), e \in 1..Len(l) :
           ~IsUrlSpan(l, i, e) /\ ~IsSepRef(l, i, e) /\ ~IsRfcRef(l, i, e)
    /\ \A i \in 1..Len(l) : ~(StartsAt(l, i, <<"s","e","p","-">>) /\ i + 4 <= Len(l) /\ l[i + 4] \in Digit)

SinglePre(lines) == << "<pre>", "\n" >> \o Join(lines) \o << "</pre>", "\n" >> \o Closing

\* C10 as claimed: a body without special tokens is written verbatim and in
\* order in a single <pre> block.
C10_AsClaimed ==
    (/\ pc = "done"
     /\ BodyLines # << >>
     /\ \A k \in 1..Len(BodyLines) : NoSpecialToken(BodyLines[k]))
        => BodyOut = SinglePre(BodyLines)

\* the body is one the amended claim covers
PlainBody ==
    /\ BodyLines # << >>
    /\ basename_of(inpath) # INDEXNAME
    /\ strip(BodyLines[1]) # << >>
    /\ \A k \in 1..Len(BodyLines) :
           /\ NoSpecialToken(BodyLines[k])
           /\ BodyLines[k][1] \in Space \ { "\f" }
           /\ strip(BodyLines[k]) # LOCALVARS

\* C10: a document other than the index whose body lines have no special
\* token and all start with white space other than a form feed (none is a
\* heading), whose first body line is not blank and none of whose lines is
\* the Local Variables marker, has its body written verbatim and in order in
\* a single <pre> block.
C10_RoundTrip == (pc = "done" /\ PlainBody) => BodyOut = SinglePre(BodyLines)

\* a body of three such lines, one of them blank, was written
C10_Witness ==
    /\ pc = "done"
    /\ PlainBody
    /\ Len(BodyLines) = 3
    /\ \E k \in 2..3 : strip(BodyLines[k]) = << >>
    /\ find(BodyLines[3], "@") > 0

-----------------------------------------------------------------------------
(* The feed *)

Min(a, b) == IF a <= b THEN a ELSE b

\* no date substring is found in the document: no Created line, or none that
\* holds day-word-year
NoDate(f) ==
    \/ firstline_startingwith(f, <<"C","r","e","a","t","e","d",":">>).none
    \/ re_search_date(firstline_startingwith(f, <<"C","r","e","a","t","e","d",":">>).v).b = 0

\* C11: for every set of N documents found by the feed builder, a document in
\* which no date substring is found does not stop the run but counts as
\* created at the epoch, and the feed has exactly min(10, N) items, the first
\* of the documents listed by descending creation date, in which every
\* undated document comes after every dated one.
C11_NewestTen ==
    /\ ~(/\ pc = "raised" /\ exc # "NameError"
         /\ NoDate(seps[Len(seps_with_dt) + 1]))
    /\ pc = "done" =>
           /\ Len(items) = Min(FeedSize, Len(seps))
           /\ { seps_with_dt[k][2] : k \in 1..Len(seps_with_dt) } = Range(seps)
           /\ \A k \in 1..Len(items) : items[k].pubDate = seps_with_dt[k][1]
           /\ \A k \in 1..(Len(seps_with_dt) - 1) :
                  ~DtLess(seps_with_dt[k][1], seps_with_dt[k + 1][1])
           /\ \A j, k \in 1..Len(seps_with_dt) :
                  (NoDate(seps_with_dt[j][2]) /\ ~NoDate(seps_with_dt[k][2])) => k < j

\* the number the item built from the k-th selected document should carry
OwnNumber(k) == NumberPart(seps_with_dt[k][2])

\* C12: for every document among the (at most 10) selected, exactly one item
\* is built, and the number in its title, link and guid is the numeric suffix
\* of that document's own file name.
C12_OwnNumber ==
    /\ ~(pc = "raised" /\ exc = "NameError")
    /\ pc = "done" => Len(items) = Min(FeedSize, Len(seps_with_dt))
    /\ \A k \in 1..Len(items) :
           /\ \A c \in Range(OwnNumber(k)) : c \in Digit
           /\ OwnNumber(k) # << >>
           /\ items[k].link = <<"h","t","t","p",":","/","/","w","w","w",".","p","y","t","h","o","n",".","o","r","g","/","d","e","v","/","s","e","p","s","/","s","e","p","-">> \o ZeroPad(OwnNumber(k), 4)
           /\ items[k].guid = items[k].link
           /\ startswith(items[k].title,
                         <<"S","E","P"," ">> \o NoLeadingZeros(OwnNumber(k)) \o <<":"," ">>)

-----------------------------------------------------------------------------
(* Structurally invalid documents in the reStructuredText path *)

\* the tree is empty or does not begin with an RFC-2822 header field list
NoHeader(doc) ==
    \/ Len(doc) = 0
    \/ doc[1].kind # "field_list"
    \/ "rfc2822" \notin doc[1].classes

\* the header has no Title field
LacksTitle(doc) ==
    /\ ~NoHeader(doc)
    /\ \A k \in 1..Len(doc[1].fields) : lower(doc[1].fields[k].name) # <<"t","i","t","l","e">>

\* the value of the header's first Sep field is no integer
NumberWarned(doc) ==
    /\ ~NoHeader(doc)
    /\ SepField(doc[1]) # 0
    /\ ~IsInt(astext(doc[1].fields[SepField(doc[1])].body))

\* the transform has run and raised exception e, which nothing handled, and
\* nothing was written
Propagated(e) == pc = "raised" /\ exc = e /\ out = << >>

\* C13 as claimed: DataError for every document whose tree is empty or does
\* not begin with an RFC-2822 header, and for every document whose header
\* lacks a Title field.
C13_AsClaimed ==
    (pc # "apply" /\ (NoHeader(document) \/ LacksTitle(document)))
        => Propagated("DataError")

\* C13: SEPHeaders.apply raises DataError for every document whose tree is
\* empty or does not begin with an RFC-2822 header, and for every document
\* whose header lacks a Title field unless the value of its first Sep field
\* is no integer: for that one the warning about the number is
\* raised first, as SystemMessage.  Either exception leaves fix_rst_sep.
C13_InvalidStructure ==
    pc # "apply" =>
        /\ (NoHeader(document) \/ (LacksTitle(document) /\ ~NumberWarned(document)))
               => Propagated("DataError")
        /\ (LacksTitle(document) /\ NumberWarned(document))
               => (Propagated("SystemMessage") /\ stderr # << >>)

\* a document with a number and no title was refused
C13_Witness ==
    /\ Propagated("DataError")
    /\ LacksTitle(document)
    /\ lower(document[1].fields[1].name) = <<"s","e","p">>
    /\ Len(document[1].fields) = 3

-----------------------------------------------------------------------------
(* Summary lines of the index document *)

\* where the second white-space-separated token of l starts
SecondStart(l) ==
    LET b == RunEnd(l, 1, Space) + 1
        e == RunEnd(l, b, Range(l) \ Space)
    IN  RunEnd(l, e + 1, Space) + 1

\* l is a text line whose second token is a number of 1 to 4 digits
NumberedLine(l) ==
    /\ l[1] \in Space \ { "\f" }
    /\ Len(split_words(l)) > 1
    /\ Len(split_words(l)[2]) <= 4
    /\ IsInt(split_words(l)[2])

\* l with its second token, and nothing else, made a link to that document
SecondLinked(l) ==
    LET tok == split_words(l)[2]
        s == SecondStart(l)
    IN  SubSeq(l, 1, s - 1)
          \o << "<a href=\"" >> \o SEPURL(int(tok)) \o << "\">" >> \o tok \o << "</a>" >>
          \o SubSeq(l, s + Len(tok), Len(l))

\* C14: in the index document, every body line whose second token is a
\* number of 1 to 4 digits is written with that token, and only that token,
\* linked to the document of that number; the rest of the line is unchanged.
C14_SummaryLinked ==
    [][(/\ pc = "body"
        /\ pos <= Len(input_lines)
        /\ basename_of(inpath) = INDEXNAME
        /\ NumberedLine(input_lines[pos]))
          => out' = out \o OpenPre \o SecondLinked(input_lines[pos])]_vars

-----------------------------------------------------------------------------
(* The header parser *)

\* the index of the first blank line, Len(lines) + 1 when there is none
HeaderEnd(lines) ==
    IF \E i \in 1..Len(lines) : strip(lines[i]) = << >>
    THEN CHOOSE i \in 1..Len(lines) :
             strip(lines[i]) = << >> /\ \A j \in 1..(i - 1) : strip(lines[j]) # << >>
    ELSE Len(lines) + 1

\* the pair of a non-indented line: its name, and its value without the
\* surrounding white space
PairOf(l) ==
    LET c == find(l, ":")
    IN  IF c = 0 THEN << strip(l), << >> >>
        ELSE << SubSeq(l, 1, c - 1), strip(SubSeq(l, c + 1, Len(l))) >>

RECURSIVE PairsOf(_, _)
\* the pairs of the first e lines: one for each non-indented line, each
\* indented line appended to the value before it
PairsOf(lines, e) ==
    IF e = 0 THEN << >>
    ELSE LET before == PairsOf(lines, e - 1)
             l == lines[e]
         IN  IF l[1] \notin Space THEN Append(before, PairOf(l))
             ELSE IF before = << >> THEN << >>
             ELSE [before EXCEPT ![Len(before)] = << @[1], @[2] \o l >>]

\* C15: for every sequence of input lines the header parser yields the
\* pairs of the lines before the first blank line, one for each non-indented
\* line with the continuation lines appended to the value before them, and
\* the body starts at the line after that blank line: no line is lost.
C15_HeaderParsed ==
    /\ exc # "IndexError"
    /\ pc = "nav" =>
          /\ header = PairsOf(input_lines, HeaderEnd(input_lines) - 1)
          /\ pos = IF HeaderEnd(input_lines) <= Len(input_lines)
                   THEN HeaderEnd(input_lines) + 1
                   ELSE Len(input_lines) + 1

=============================================================================
